---- MODULE Spec2Model ----
(***************************************************************************)
(* A model of the data distributor of fdbserver/DataDistribution.actor.cpp *)
(* : the snapshot orchestrator (ddSnapCreate / ddSnapCreateCore) and the   *)
(* supervisor loop (dataDistribution).  Every actor is modelled at the      *)
(* granularity of its wait() points: one action is the code that runs from *)
(* one wait to the next, callbacks of the waiting parent included.         *)
(***************************************************************************)
EXTENDS Integers, Sequences, FiniteSets, TLC

(* ------------------------------ bounds --------------------------------- *)
\* number of transaction logs in the universe of local logs
NumTLogs == 2
\* largest number of storage workers getStorageWorkers returns
MaxStorageWorkers == 2
\* largest number of coordinators getCoordWorkers returns
MaxCoordWorkers == 6
\* largest storageTeamSize of a configuration
MaxTeamSize == 2
\* largest number of shards (the sentinel not counted) of an initial snapshot
MaxShards == 2
\* largest number of ranges of the data move map of an initial snapshot
MaxMoves == 1
\* number of ddSnapCreate actors the actor collection of dataDistributor holds
\* at one time (running, or ended and not yet released)
MaxSnapReqs == 2

(* ------------------------- program constants --------------------------- *)
MAX_STORAGE_SNAPSHOT_FAULT_TOLERANCE == 1
MAX_COORDINATOR_SNAPSHOT_FAULT_TOLERANCE == 1

TLogs == 1..NumTLogs
Snaps == 1..MaxSnapReqs
LogSets == (SUBSET TLogs) \ {{}}

Min(a, b) == IF a < b THEN a ELSE b
Max(a, b) == IF a > b THEN a ELSE b

VARIABLES
    ddEnabled,        \* the in-memory flag: what ddEnabledState->isDDEnabled() returns
    localLogs,        \* db->get().logSystemConfig.allLocalLogs(false)
    writeRecoveryKey, \* the persisted write-recovery marker
    snapPc,           \* per request: position of its ddSnapCreate actor
    snapReply,        \* per request: what was sent on snapReq.reply
    core,             \* per request: state of its ddSnapCreateCore actor
    ddModeKey,        \* the value stored at dataDistributionModeKey
    lockOwner,        \* the value stored at moveKeysLockOwnerKey
    ddIsTenantAware,  \* SERVER_KNOBS->DD_TENANT_AWARENESS_ENABLED
    sup,              \* the state of the dataDistribution actor
    reader,           \* the state of the getInitialDataDistribution actor
    wiggler,          \* a StorageWiggler
    waiter,           \* one call of waitForMost, with the clock
    replicas,         \* the keys of datacenterReplicasKeys and the step that rewrites them
    role              \* the dataDistributor actor and its exclusion safety check

snapVars == <<ddEnabled, localLogs, writeRecoveryKey, snapPc, snapReply, core>>
supVars == <<ddModeKey, lockOwner, ddIsTenantAware, sup>>
libVars == <<reader, wiggler, waiter, role, replicas>>
vars == <<snapVars, supVars, libVars>>

(* ------------------------- DDEnabledState ------------------------------ *)
\* setDDEnabled(status, uid): the value it returns, given the flag
setDDEnabledResult(status, flag) == IF status THEN TRUE ELSE flag
\* setDDEnabled(status, uid): the flag it leaves
setDDEnabledFlag(status, flag) == IF setDDEnabledResult(status, flag) THEN status ELSE flag
\* a call of isDDEnabled(), given the flag
isDDEnabled(flag) == flag

(* ------------------------- ddSnapCreateCore ---------------------------- *)
\* the error codes on which the catch block re-enables tlog popping
ReEnableErrors ==
    {"snap_storage_failed", "snap_tlog_failed", "operation_cancelled", "snap_disable_tlog_pop_failed"}

CoreFinal == {"done", "failed"}

\* the actor before it is started
\* (log, acked, nacked, failedAt and catchLogs record what the actor did: the
\* batches of requests it sent, the tlog requests answered successfully and
\* with an error, the wait at which the try block was left and the local logs
\* of ServerDBInfo when the catch block was entered; teamSize and observed
\* record what getDatabaseConfiguration and getStorageWorkers returned,
\* observed being -1 before that; workers and failures record the requests
\* sent and the error results counted by the last waitForMost step.  The last
\* four are kept while the step they belong to is the last one the actor
\* took, and are forgotten afterwards)
CoreInit ==
    [pc |-> "notStarted", tlogs |-> {}, pending |-> {}, n |-> 0, left |-> 0, ok |-> 0,
     bad |-> 0, ft |-> 0, grace |-> FALSE, log |-> <<>>, acked |-> {}, err |-> "none",
     failedAt |-> "none", catchLogs |-> {}, nacked |-> {}, teamSize |-> 0, observed |-> -1,
     workers |-> 0, failures |-> 0]

\* the record of the last waitForMost step is dropped
Forget(c) == [c EXCEPT !.teamSize = 0, !.observed = -1, !.workers = 0, !.failures = 0]

\* the steps whose record is kept when the try block is left at them
RecordedSteps == {"getStorage", "snapStorage", "snapCoord"}

\* one batch of requests handed to the transport, in program order, with the
\* state of the step the actor waited for when it sent the batch: ready when no
\* future of its waitForAll is outstanding, quorum when the successes of its
\* waitForMost are size - faultTolerance or more
Sent(c, kind, to) ==
    [c EXCEPT !.log = Append(@, [kind |-> kind, to |-> to, ready |-> c.pending = {},
                                 quorum |-> c.ok >= c.n - c.ft])]

\* a fault tolerance that leaves out the failures already observed
IgnoreObserved(teamSize, storageFailures) ==
    Min(MAX_STORAGE_SNAPSHOT_FAULT_TOLERANCE, teamSize - 1)

\* the fault tolerance of the storage snapshot step
storageFaultTolerance(teamSize, storageFailures) ==
    Min(MAX_STORAGE_SNAPSHOT_FAULT_TOLERANCE, teamSize - 1) - storageFailures

\* a fault tolerance of half of the coordinators
HalfOfCoordinators(n) ==
    Min(Max(0, n \div 2), MAX_COORDINATOR_SNAPSHOT_FAULT_TOLERANCE)

\* the fault tolerance of the coordinator snapshot step
coordFaultTolerance(n) ==
    Min(Max(0, (n \div 2) - 1), MAX_COORDINATOR_SNAPSHOT_FAULT_TOLERANCE)

\* the try block up to its first wait: the disable-pop requests
SendDisablePops(c, logs) ==
    [Sent(c, "disablePop", logs) EXCEPT !.pc = "disablePop", !.tlogs = logs, !.pending = logs]

\* the storage snapshot requests
SendStorageSnaps(c, n, ft) ==
    [Sent(c, "snapStorage", {}) EXCEPT
        !.pc = "snapStorage", !.n = n, !.left = n, !.ok = 0, !.bad = 0, !.ft = ft,
        !.grace = (n - ft <= 0), !.workers = n, !.failures = 0]

\* the tlog snapshot requests
SendTLogSnaps(c) ==
    [Sent(c, "snapTLog", c.tlogs) EXCEPT
        !.pc = "snapTLog", !.pending = c.tlogs, !.n = 0, !.left = 0, !.ok = 0, !.bad = 0,
        !.ft = 0, !.grace = FALSE]

\* the enable-pop requests of the try block
SendEnablePops(c) ==
    [Sent(Forget(c), "enablePop", c.tlogs) EXCEPT !.pc = "enablePop", !.pending = c.tlogs]

\* a core that clears the marker without asking the coordinators
ClearBeforeCoordinators(c, n) ==
    [c EXCEPT !.pc = "clearFlag", !.n = 0, !.left = 0, !.ok = 0, !.bad = 0, !.ft = 0,
              !.grace = FALSE]

\* the coordinator snapshot requests
SendCoordSnaps(c, n) ==
    [Sent(c, "snapCoord", {}) EXCEPT
        !.pc = "snapCoord", !.n = n, !.left = n, !.ok = 0, !.bad = 0,
        !.ft = coordFaultTolerance(n), !.grace = (n - coordFaultTolerance(n) <= 0),
        !.workers = n, !.failures = 0]

\* the actor ends: its locals are gone
Ended(c, pc) ==
    [c EXCEPT !.pc = pc, !.pending = {}, !.n = 0, !.left = 0, !.ok = 0, !.bad = 0, !.ft = 0,
              !.grace = FALSE]

\* the error leaves the actor
Throw(c, e) == [Ended(c, "failed") EXCEPT !.err = e]

\* a catch block that does not re-enable on cancellation
ReEnableOnFailure(e) == e \in ReEnableErrors \ {"operation_cancelled"}

\* the re-enable of the catch block is attempted for error e
ReEnableOn(e) == e \in ReEnableErrors

\* the catch block: e was thrown inside the try block.  logs is what
\* allLocalLogs returns now; a cancelled actor throws from its next wait.
Catch(c, e, logs, cancelled) ==
    LET c1 == [(IF c.pc \in RecordedSteps THEN c ELSE Forget(c)) EXCEPT
                  !.failedAt = c.pc, !.err = e, !.catchLogs = logs]
    IN IF ReEnableOn(e)
       THEN IF cancelled
            THEN Throw(Sent(c1, "enablePopCatch", logs), e)
            ELSE [Sent(c1, "enablePopCatch", logs) EXCEPT
                     !.pc = "reEnable", !.pending = logs, !.n = 0, !.left = 0, !.ok = 0,
                     !.bad = 0, !.ft = 0, !.grace = FALSE]
       ELSE Throw(c1, e)

\* a choose that leaves the losing actor running
LeftRunning(c, logs) == c

\* cancellation of the actor, wherever it waits
Cancel(c, logs) ==
    IF c.pc \in CoreFinal \cup {"notStarted"} THEN c
    ELSE IF c.pc = "writeFlag"
         THEN Throw([c EXCEPT !.failedAt = c.pc], "operation_cancelled")
    ELSE IF c.pc = "reEnable" THEN Throw(c, c.err)
    ELSE Catch(c, "operation_cancelled", logs, TRUE)

(* --------------------------- ddSnapCreate ------------------------------ *)
\* a ddSnapCreate that goes on whatever setDDEnabled returns
NeverRefused(flag) == FALSE

\* the request is refused when the flag cannot be flipped to false
Refused(flag) == ~setDDEnabledResult(FALSE, flag)

\* a ddSnapCreate that re-throws a cancellation without enabling DD again
EnableDDUnlessCancelled(flag, cancelled) ==
    IF cancelled THEN flag ELSE setDDEnabledFlag(TRUE, flag)

\* the flag when ddSnapCreate leaves (cancelled: by the re-throw of its catch
\* block, otherwise by falling out of its try statement)
EnableDDOnExit(flag, cancelled) == setDDEnabledFlag(TRUE, flag)

\* a ddSnapCreate whose catch block sends no reply
ReplyOnSuccessOnly(i, c) ==
    /\ core' = [core EXCEPT ![i] = c]
    /\ IF c.pc = "done"
       THEN /\ snapReply' = [snapReply EXCEPT ![i] = Append(@, "Void")]
            /\ ddEnabled' = EnableDDOnExit(ddEnabled, FALSE)
            /\ snapPc' = [snapPc EXCEPT ![i] = "done"]
       ELSE IF c.pc = "failed"
       THEN /\ UNCHANGED snapReply
            /\ ddEnabled' = EnableDDOnExit(ddEnabled, FALSE)
            /\ snapPc' = [snapPc EXCEPT ![i] = "done"]
       ELSE UNCHANGED <<snapReply, ddEnabled, snapPc>>

\* what ddSnapCreate does when its core actor has moved to c
\* (reply, flag and position of request i)
AfterCore(i, c) ==
    /\ core' = [core EXCEPT ![i] = c]
    /\ IF c.pc = "done"
       THEN /\ snapReply' = [snapReply EXCEPT ![i] = Append(@, "Void")]
            /\ ddEnabled' = EnableDDOnExit(ddEnabled, FALSE)
            /\ snapPc' = [snapPc EXCEPT ![i] = "done"]
       ELSE IF c.pc = "failed"
       THEN /\ snapReply' = [snapReply EXCEPT ![i] = Append(@, c.err)]
            /\ ddEnabled' = EnableDDOnExit(ddEnabled, FALSE)
            /\ snapPc' = [snapPc EXCEPT ![i] = "done"]
       ELSE UNCHANGED <<snapReply, ddEnabled, snapPc>>

\* the ddSnapCreate actors that ended
SnapFinal == {"done", "refused", "cancelled"}

\* the actor collection of dataDistributor has released the actors that ended
Released(i) == [j \in Snaps |-> IF j # i /\ snapPc[j] \in SnapFinal THEN CoreInit ELSE core[j]]

\* dataDistributor receives a DistributorSnapRequest and starts ddSnapCreate,
\* which runs to its choose (ddSnapCreateCore to its first commit)
SnapArrive(i) ==
    /\ snapPc[i] # "running"
    /\ \A j \in Snaps : j < i => snapPc[j] = "running"
    /\ LET pcs == [j \in Snaps |-> IF snapPc[j] = "running" THEN "running" ELSE "none"]
           replies == [j \in Snaps |-> IF snapPc[j] = "running" THEN snapReply[j] ELSE <<>>]
       IN IF Refused(ddEnabled)
          THEN /\ snapReply' = [replies EXCEPT ![i] = <<"operation_failed">>]
               /\ snapPc' = [pcs EXCEPT ![i] = "refused"]
               /\ core' = [Released(i) EXCEPT ![i] = CoreInit]
               /\ UNCHANGED ddEnabled
          ELSE /\ ddEnabled' = setDDEnabledFlag(FALSE, ddEnabled)
               /\ snapPc' = [pcs EXCEPT ![i] = "running"]
               /\ core' = [Released(i) EXCEPT ![i] = [CoreInit EXCEPT !.pc = "writeFlag"]]
               /\ snapReply' = [replies EXCEPT ![i] = <<>>]
    /\ UNCHANGED <<localLogs, writeRecoveryKey, supVars, libVars>>

\* the commit of the write-recovery marker succeeds; the try block starts
CoreWriteFlag(i) ==
    /\ snapPc[i] = "running" /\ core[i].pc = "writeFlag"
    /\ writeRecoveryKey' = TRUE
    /\ AfterCore(i, SendDisablePops(core[i], localLogs))
    /\ UNCHANGED <<localLogs, supVars, libVars>>

\* the commit fails with a retryable error (its result may be unknown) and
\* tr.onError makes the loop try again
CoreWriteFlagError(i, committed) ==
    /\ snapPc[i] = "running" /\ core[i].pc = "writeFlag"
    /\ writeRecoveryKey' = (writeRecoveryKey \/ committed)
    /\ UNCHANGED <<ddEnabled, localLogs, snapPc, snapReply, core, supVars, libVars>>

\* a sendSnapReq that returns whatever the reply is
IgnoreReplyError(c, t, ok, e, logs) ==
    [c EXCEPT !.pending = @ \ {t},
              !.acked = IF ok THEN @ \cup {<<c.pc, t>>} ELSE @,
              !.nacked = IF ok THEN @ ELSE @ \cup {<<c.pc, t>>}]

\* sendSnapReq / waitForAll: the reply of one request of a batch that must
\* succeed as a whole; the state of the actor after the reply of tlog t
waitForAllReply(c, t, ok, e, logs) ==
    IF ok
    THEN [c EXCEPT !.pending = @ \ {t}, !.acked = @ \cup {<<c.pc, t>>}]
    ELSE Catch([c EXCEPT !.nacked = @ \cup {<<c.pc, t>>}], e, logs, FALSE)

\* a waitForAll that returns as soon as one future of the batch is ready
AnyReady(c) == c.pending # c.tlogs

\* waitForAll returns: every future of the batch is ready
AllReady(c) == c.pending = {}

\* a tlog answers the disable-pop request
DisablePopReply(i, t, ok) ==
    /\ snapPc[i] = "running" /\ core[i].pc = "disablePop" /\ t \in core[i].pending
    /\ LET c == waitForAllReply(core[i], t, ok, "snap_disable_tlog_pop_failed", localLogs)
       IN AfterCore(i, IF c.pc = "disablePop" /\ AllReady(c)
                       THEN [c EXCEPT !.pc = "getStorage"] ELSE c)
    /\ UNCHANGED <<localLogs, writeRecoveryKey, supVars, libVars>>

\* getDatabaseConfiguration and getStorageWorkers return
GetStorageWorkers(i, teamSize, n, storageFailures) ==
    /\ snapPc[i] = "running" /\ core[i].pc = "getStorage"
    /\ LET ft == storageFaultTolerance(teamSize, storageFailures)
           c == [core[i] EXCEPT !.teamSize = teamSize, !.observed = storageFailures]
       IN AfterCore(i, IF ft < 0
                       THEN Catch(c, "snap_storage_failed", localLogs, FALSE)
                       ELSE SendStorageSnaps(c, n, ft))
    /\ UNCHANGED <<localLogs, writeRecoveryKey, supVars, libVars>>

\* getStorageWorkers fails; transformErrors turns the error into snap_storage_failed
GetStorageWorkersError(i) ==
    /\ snapPc[i] = "running" /\ core[i].pc = "getStorage"
    /\ AfterCore(i, Catch(core[i], "snap_storage_failed", localLogs, FALSE))
    /\ UNCHANGED <<localLogs, writeRecoveryKey, supVars, libVars>>

\* waitForMost, on the reply of one more future (ok: a present result):
\* "throw" when more than ft futures failed before the quorum, "proceed" when
\* it returns, "grace" while it waits for slow futures, "wait" otherwise
waitForMost(c, ok) ==
    LET good == c.ok + (IF ok THEN 1 ELSE 0)
        bad == c.bad + (IF ok THEN 0 ELSE 1)
    IN IF ~c.grace /\ bad > c.ft THEN "throw"
       ELSE IF c.grace \/ good >= c.n - c.ft
            THEN (IF c.left = 1 THEN "proceed" ELSE "grace")
            ELSE "wait"

\* the counters of a waitForMost step after one more reply
Counted(c, ok, outcome) ==
    [c EXCEPT !.left = @ - 1,
              !.ok = @ + (IF ok THEN 1 ELSE 0),
              !.bad = @ + (IF ok THEN 0 ELSE 1),
              !.grace = (outcome = "grace"),
              !.failures = @ + (IF ok THEN 0 ELSE 1)]

\* a storage worker answers the snapshot request
StorageSnapReply(i, ok) ==
    /\ snapPc[i] = "running" /\ core[i].pc = "snapStorage" /\ core[i].left > 0
    /\ LET outcome == waitForMost(core[i], ok)
           c == Counted(core[i], ok, outcome)
       IN AfterCore(i, CASE outcome = "throw" -> Catch(c, "snap_storage_failed", localLogs, FALSE)
                         [] outcome = "proceed" -> SendTLogSnaps(c)
                         [] OTHER -> c)
    /\ UNCHANGED <<localLogs, writeRecoveryKey, supVars, libVars>>

\* the delay that waitForMost grants to slow storage workers elapses
StorageGraceEnd(i) ==
    /\ snapPc[i] = "running" /\ core[i].pc = "snapStorage" /\ core[i].grace
    /\ AfterCore(i, SendTLogSnaps(core[i]))
    /\ UNCHANGED <<localLogs, writeRecoveryKey, supVars, libVars>>

\* a tlog answers the snapshot request
TLogSnapReply(i, t, ok) ==
    /\ snapPc[i] = "running" /\ core[i].pc = "snapTLog" /\ t \in core[i].pending
    /\ LET c == waitForAllReply(core[i], t, ok, "snap_tlog_failed", localLogs)
       IN AfterCore(i, IF c.pc = "snapTLog" /\ AllReady(c) THEN SendEnablePops(c) ELSE c)
    /\ UNCHANGED <<localLogs, writeRecoveryKey, supVars, libVars>>

\* a tlog answers the enable-pop request of the try block
EnablePopReply(i, t, ok) ==
    /\ snapPc[i] = "running" /\ core[i].pc = "enablePop" /\ t \in core[i].pending
    /\ LET c == waitForAllReply(core[i], t, ok, "snap_enable_tlog_pop_failed", localLogs)
       IN AfterCore(i, IF c.pc = "enablePop" /\ AllReady(c)
                       THEN [c EXCEPT !.pc = "getCoord"] ELSE c)
    /\ UNCHANGED <<localLogs, writeRecoveryKey, supVars, libVars>>

\* getCoordWorkers returns n coordinators
GetCoordWorkers(i, n) ==
    /\ snapPc[i] = "running" /\ core[i].pc = "getCoord"
    /\ AfterCore(i, SendCoordSnaps(core[i], n))
    /\ UNCHANGED <<localLogs, writeRecoveryKey, supVars, libVars>>

\* getCoordWorkers fails
GetCoordWorkersError(i) ==
    /\ snapPc[i] = "running" /\ core[i].pc = "getCoord"
    /\ AfterCore(i, Catch(core[i], "operation_failed", localLogs, FALSE))
    /\ UNCHANGED <<localLogs, writeRecoveryKey, supVars, libVars>>

\* the transaction that clears the marker is started
StartClearFlag(c) ==
    [c EXCEPT !.pc = "clearFlag", !.n = 0, !.left = 0, !.ok = 0, !.bad = 0, !.ft = 0,
              !.grace = FALSE]

\* a coordinator answers the snapshot request
CoordSnapReply(i, ok) ==
    /\ snapPc[i] = "running" /\ core[i].pc = "snapCoord" /\ core[i].left > 0
    /\ LET outcome == waitForMost(core[i], ok)
           c == Counted(core[i], ok, outcome)
       IN AfterCore(i, CASE outcome = "throw" -> Catch(c, "snap_coord_failed", localLogs, FALSE)
                         [] outcome = "proceed" -> StartClearFlag(c)
                         [] OTHER -> c)
    /\ UNCHANGED <<localLogs, writeRecoveryKey, supVars, libVars>>

\* the delay that waitForMost grants to slow coordinators elapses
CoordGraceEnd(i) ==
    /\ snapPc[i] = "running" /\ core[i].pc = "snapCoord" /\ core[i].grace
    /\ AfterCore(i, StartClearFlag(core[i]))
    /\ UNCHANGED <<localLogs, writeRecoveryKey, supVars, libVars>>

\* the commit that clears the marker succeeds: ddSnapCreateCore returns
CoreClearFlag(i) ==
    /\ snapPc[i] = "running" /\ core[i].pc = "clearFlag"
    /\ writeRecoveryKey' = FALSE
    /\ AfterCore(i, Ended(Forget(core[i]), "done"))
    /\ UNCHANGED <<localLogs, supVars, libVars>>

\* the commit that clears the marker fails with a retryable error
CoreClearFlagError(i, committed) ==
    /\ snapPc[i] = "running" /\ core[i].pc = "clearFlag"
    /\ writeRecoveryKey' = (writeRecoveryKey /\ ~committed)
    /\ UNCHANGED <<ddEnabled, localLogs, snapPc, snapReply, core, supVars, libVars>>

\* a catch block that lets the failure of its re-enable attempt propagate
ReEnableFailure(c, ok) == IF ok THEN c.err ELSE "snap_enable_tlog_pop_failed"

\* the error that leaves the catch block once the re-enable attempt has ended
\* (ok: it succeeded): a failure of the attempt is ignored
ReEnableError(c, ok) == c.err

\* a tlog answers the enable-pop request of the catch block
ReEnableReply(i, t, ok) ==
    /\ snapPc[i] = "running" /\ core[i].pc = "reEnable" /\ t \in core[i].pending
    /\ LET c == [core[i] EXCEPT !.pending = @ \ {t},
                                !.acked = IF ok THEN @ \cup {<<"reEnable", t>>} ELSE @]
       IN AfterCore(i, IF ok /\ ~AllReady(c) THEN c ELSE Throw(c, ReEnableError(c, ok)))
    /\ UNCHANGED <<localLogs, writeRecoveryKey, supVars, libVars>>

\* the deadline of ddSnapCreate elapses first: the core actor is dropped
SnapTimeout(i) ==
    /\ snapPc[i] = "running"
    /\ core' = [core EXCEPT ![i] = Cancel(@, localLogs)]
    /\ snapReply' = [snapReply EXCEPT ![i] = Append(@, "timed_out")]
    /\ ddEnabled' = EnableDDOnExit(ddEnabled, FALSE)
    /\ snapPc' = [snapPc EXCEPT ![i] = "done"]
    /\ UNCHANGED <<localLogs, writeRecoveryKey, supVars, libVars>>

\* ddSnapCreate itself is cancelled: it re-enables DD and re-throws
SnapCancelled(i) ==
    /\ snapPc[i] = "running"
    /\ core' = [core EXCEPT ![i] = Cancel(@, localLogs)]
    /\ ddEnabled' = EnableDDOnExit(ddEnabled, TRUE)
    /\ snapPc' = [snapPc EXCEPT ![i] = "cancelled"]
    /\ UNCHANGED <<snapReply, localLogs, writeRecoveryKey, supVars, libVars>>

\* ServerDBInfo changes (logs: the local logs it names now); every running
\* ddSnapCreate takes its dbInfoChange branch
DbInfoChange(logs) ==
    /\ localLogs' = logs
    /\ core' = [i \in Snaps |-> IF snapPc[i] = "running" THEN Cancel(core[i], logs) ELSE core[i]]
    /\ snapReply' = [i \in Snaps |-> IF snapPc[i] = "running"
                                     THEN Append(snapReply[i], "snap_with_recovery_unsupported")
                                     ELSE snapReply[i]]
    /\ snapPc' = [i \in Snaps |-> IF snapPc[i] = "running" THEN "done" ELSE snapPc[i]]
    /\ ddEnabled' = IF \E i \in Snaps : snapPc[i] = "running"
                    THEN EnableDDOnExit(ddEnabled, FALSE) ELSE ddEnabled
    /\ UNCHANGED <<writeRecoveryKey, supVars, libVars>>

NextSnap ==
    \/ \E i \in Snaps : SnapArrive(i)
    \/ \E i \in Snaps : CoreWriteFlag(i)
    \/ \E i \in Snaps, committed \in BOOLEAN : CoreWriteFlagError(i, committed)
    \/ \E i \in Snaps, t \in TLogs, ok \in BOOLEAN : DisablePopReply(i, t, ok)
    \/ \E i \in Snaps, teamSize \in 1..MaxTeamSize, n \in 1..MaxStorageWorkers,
          f \in 0..MaxTeamSize : GetStorageWorkers(i, teamSize, n, f)
    \/ \E i \in Snaps : GetStorageWorkersError(i)
    \/ \E i \in Snaps, ok \in BOOLEAN : StorageSnapReply(i, ok)
    \/ \E i \in Snaps : StorageGraceEnd(i)
    \/ \E i \in Snaps, t \in TLogs, ok \in BOOLEAN : TLogSnapReply(i, t, ok)
    \/ \E i \in Snaps, t \in TLogs, ok \in BOOLEAN : EnablePopReply(i, t, ok)
    \/ \E i \in Snaps, n \in 1..MaxCoordWorkers : GetCoordWorkers(i, n)
    \/ \E i \in Snaps : GetCoordWorkersError(i)
    \/ \E i \in Snaps, ok \in BOOLEAN : CoordSnapReply(i, ok)
    \/ \E i \in Snaps : CoordGraceEnd(i)
    \/ \E i \in Snaps : CoreClearFlag(i)
    \/ \E i \in Snaps, committed \in BOOLEAN : CoreClearFlagError(i, committed)
    \/ \E i \in Snaps, t \in TLogs, ok \in BOOLEAN : ReEnableReply(i, t, ok)
    \/ \E i \in Snaps : SnapTimeout(i)
    \/ \E i \in Snaps : SnapCancelled(i)
    \/ \E logs \in LogSets : DbInfoChange(logs)

(* --------------------------- dataDistribution -------------------------- *)
\* the errors an actor of the pipeline, a transaction or a cancellation raises
Errors ==
    {"movekeys_conflict", "broken_promise", "data_move_cancelled",
     "data_move_dest_team_not_found", "actor_cancelled", "internal_error"}

normalDDQueueErrors ==
    {"movekeys_conflict", "broken_promise", "data_move_cancelled", "data_move_dest_team_not_found"}

ModeValues == {"absent", "0", "1"}
Owners == {"self", "other", "dataDistributionModeLock"}

\* what a range of InitialDataDistribution::dataMoveMap asks of the supervisor:
\* "cancel": the move is cancelled, or valid and not encoded in the shards;
\* "recover": the move is valid; "none": the range holds no move
MoveKinds == {"cancel", "recover", "none"}

\* The model keeps of a snapshot its mode, the number of its shards (the
\* sentinel not counted) and the number of ranges of its data move map.  What
\* a shard or a range holds is drawn when the seeding loop reads it, which it
\* does once: hasAnonymousDest is TRUE when the shard read has hasDest and an
\* anonymous destId, moveKinds[k] is the kind of the k-th range.
MoveLists == [1..MaxMoves -> MoveKinds]

\* the waits inside the try block of the outer loop, and those of its catch block
TryPcs ==
    {"lock", "config", "replicaKeys", "initDD", "initDDScan", "waitEnabled", "tenantCache",
     "seedShards", "seedMoves", "run"}
CatchPcs == {"clearAsync", "removeKeys", "removeServer", "checkEnabled", "checkEnabled2"}

NoGate == [evaluated |-> FALSE, mode |-> 1, flag |-> TRUE]

\* the actor when it is started.  (stepLog, gate, report, errAt, exitErr and
\* exitBy record what the actor did: the steps of the current iteration, the
\* operands of the last DD-enabled gate, the last answer of
\* isDataDistributionEnabled, the wait at which the caught error was raised,
\* the error that ended the actor, whether the catch block re-threw it
\* ("rethrow") or a wait of the catch block raised it ("catch"), and the steps
\* of the last run of the catch block; poll is the wait pollMoveKeysLock is
\* in, "off" when there is no poller, and pollThrew the error with which the
\* poller ended the last run of the pipeline)
SupInit ==
    [pc |-> "lock", usableRegions |-> 1,
     initData |-> [mode |-> 1, shards |-> 0, moves |-> 0, ready |-> FALSE],
     shard |-> 0, move |-> 0, output |-> <<>>, actors |-> FALSE,
     teamCollection |-> FALSE, primaryTeamCollection |-> FALSE, remoteTeamCollection |-> FALSE,
     shards |-> FALSE, trackerCancelled |-> FALSE, removeFailedServer |-> FALSE,
     teamForDroppedRange |-> {}, err |-> "none", txnOwner |-> "none",
     stepLog |-> <<>>, gate |-> NoGate, report |-> "none", errAt |-> "none", exitErr |-> "none",
     exitBy |-> "none", teardown |-> <<>>, poll |-> "off", pollThrew |-> "none"]

Step(s, name) == [s EXCEPT !.stepLog = Append(@, name)]

\* an early return that looks at the mode only
DisabledByMode(mode, flag) == mode = 0

\* the early return of getInitialDataDistribution
DisabledDD(mode, flag) == mode = 0 \/ ~isDDEnabled(flag)

\* a gate that looks at the mode of the snapshot only
ModeOnlyGate(mode, flag) == mode # 0

\* the condition on which the inner loop of the supervisor is left
DDGate(mode, flag) == mode # 0 /\ isDDEnabled(flag)

\* the actors of the pipeline are created and awaited
Spawn(s) ==
    [Step(Step(s, "spawn"), "await") EXCEPT
        !.pc = "run", !.actors = TRUE, !.poll = "delay", !.teamCollection = TRUE,
        !.primaryTeamCollection = TRUE, !.remoteTeamCollection = (s.usableRegions > 1),
        !.shards = TRUE]

\* the loop over the data move map, from range s.move on, up to its next yield
RECURSIVE SeedMoves(_, _)
SeedMoves(s, moveKinds) ==
    IF s.move > s.initData.moves THEN Spawn(s)
    ELSE CASE moveKinds[s.move] = "cancel" ->
                SeedMoves([s EXCEPT !.output = Append(@, "cancelMove"), !.move = @ + 1], moveKinds)
           [] moveKinds[s.move] = "recover" ->
                [s EXCEPT !.output = Append(@, "recoverMove"), !.pc = "seedMoves"]
           [] OTHER -> SeedMoves([s EXCEPT !.move = @ + 1], moveKinds)

\* the loop over the shards, at shard s.shard (from 0), up to its yield
SeedShards(s, hasAnonymousDest, moveKinds) ==
    IF s.shard < s.initData.shards
    THEN [s EXCEPT !.pc = "seedShards",
                   !.output = IF hasAnonymousDest
                              THEN Append(@, "recoverShard") ELSE @]
    ELSE SeedMoves([s EXCEPT !.move = 1], moveKinds)

\* the streams of the pipeline are created and the seeding starts
StartPipeline(s, hasAnonymousDest, moveKinds) ==
    SeedShards([Step(s, "seed") EXCEPT !.shard = 0, !.output = <<>>], hasAnonymousDest, moveKinds)

\* a supervisor that seeds the pipeline as soon as the snapshot is read
SkipGate(s, flag, tenantAware, hasAnonymousDest, moveKinds) ==
    StartPipeline(s, hasAnonymousDest, moveKinds)

\* getInitialDataDistribution has returned: the DD-enabled gate
AfterInitDD(s, flag, tenantAware, hasAnonymousDest, moveKinds) ==
    LET s1 == [Step(s, "gate") EXCEPT
                  !.gate = [evaluated |-> TRUE, mode |-> s.initData.mode, flag |-> flag]]
    IN IF DDGate(s.initData.mode, flag)
       THEN (IF tenantAware THEN [s1 EXCEPT !.pc = "tenantCache"]
             ELSE StartPipeline(s1, hasAnonymousDest, moveKinds))
       ELSE [s1 EXCEPT !.pc = "waitEnabled"]

\* the outer loop starts its next iteration
Restart(s) ==
    [s EXCEPT !.pc = "lock", !.trackerCancelled = FALSE, !.removeFailedServer = FALSE,
              !.teamForDroppedRange = {}, !.shard = 0, !.move = 0, !.output = <<>>,
              !.actors = FALSE, !.err = "none", !.errAt = "none", !.txnOwner = "none",
              !.stepLog = <<>>, !.gate = NoGate, !.pollThrew = "none"]

\* the error leaves the actor: its locals are gone
Die(s, e) ==
    [SupInit EXCEPT !.pc = "dead", !.exitErr = e, !.exitBy = "rethrow",
                    !.err = s.err, !.errAt = s.errAt,
                    !.report = s.report, !.removeFailedServer = s.removeFailedServer,
                    !.teamForDroppedRange = s.teamForDroppedRange,
                    !.usableRegions = s.usableRegions, !.teardown = s.teardown,
                    !.trackerCancelled = s.trackerCancelled]

\* takeMoveKeysLock returns
SupTakeLock ==
    /\ sup.pc = "lock"
    /\ lockOwner' = "self"
    /\ sup' = [Step(sup, "lock") EXCEPT !.pc = "config", !.teardown = <<>>]
    /\ UNCHANGED <<ddModeKey, ddIsTenantAware, snapVars, libVars>>

\* getDatabaseConfiguration returns
SupGetConfiguration(regions) ==
    /\ sup.pc = "config"
    /\ sup' = [Step(sup, "config") EXCEPT !.pc = "replicaKeys", !.usableRegions = regions]
    /\ UNCHANGED <<ddModeKey, lockOwner, ddIsTenantAware, snapVars, libVars>>

\* the transaction that rewrites the replica-count keys commits; the call of
\* getInitialDataDistribution starts
SupReplicaKeys ==
    /\ sup.pc = "replicaKeys"
    /\ sup' = [Step(sup, "initDD") EXCEPT
                  !.pc = "initDD",
                  !.initData = [mode |-> 1, shards |-> 0, moves |-> 0, ready |-> FALSE]]
    /\ UNCHANGED <<ddModeKey, lockOwner, ddIsTenantAware, snapVars, libVars>>

\* getInitialDataDistribution has read dataDistributionModeKey
SupInitDD ==
    /\ sup.pc = "initDD"
    /\ LET m == IF ddModeKey = "0" THEN 0 ELSE 1
           none == FALSE
           nomove == [k \in 1..MaxMoves |-> "none"]
       IN sup' = IF DisabledDD(m, ddEnabled)
                 THEN AfterInitDD([sup EXCEPT !.initData.mode = m, !.initData.ready = TRUE],
                                  ddEnabled, ddIsTenantAware, none, nomove)
                 ELSE [sup EXCEPT !.pc = "initDDScan", !.initData.mode = m]
    /\ UNCHANGED <<ddModeKey, lockOwner, ddIsTenantAware, snapVars, libVars>>

\* getInitialDataDistribution has read the servers, the data moves and the
\* shards, and returns
SupInitDDScan(shards, moves, hasAnonymousDest, moveKinds) ==
    /\ sup.pc = "initDDScan"
    /\ sup' = AfterInitDD([sup EXCEPT !.initData.shards = shards, !.initData.moves = moves,
                                      !.initData.ready = TRUE],
                          ddEnabled, ddIsTenantAware, hasAnonymousDest, moveKinds)
    /\ UNCHANGED <<ddModeKey, lockOwner, ddIsTenantAware, snapVars, libVars>>

\* the answer of waitForDataDistributionEnabled to one read of the mode key
waitForDataDistributionEnabled(mode, flag) == mode # "0" /\ isDDEnabled(flag)

\* waitForDataDistributionEnabled returns: back to the lock
SupWaitEnabled ==
    /\ sup.pc = "waitEnabled"
    /\ waitForDataDistributionEnabled(ddModeKey, ddEnabled)
    /\ sup' = [sup EXCEPT !.pc = "lock", !.stepLog = <<>>]
    /\ UNCHANGED <<ddModeKey, lockOwner, ddIsTenantAware, snapVars, libVars>>

\* the tenant cache is built
SupTenantCache(hasAnonymousDest, moveKinds) ==
    /\ sup.pc = "tenantCache"
    /\ sup' = StartPipeline(sup, hasAnonymousDest, moveKinds)
    /\ UNCHANGED <<ddModeKey, lockOwner, ddIsTenantAware, snapVars, libVars>>

\* the yield of the loop over the shards returns
SupSeedShardYield(hasAnonymousDest, moveKinds) ==
    /\ sup.pc = "seedShards"
    /\ sup' = SeedShards([sup EXCEPT !.shard = @ + 1], hasAnonymousDest, moveKinds)
    /\ UNCHANGED <<ddModeKey, lockOwner, ddIsTenantAware, snapVars, libVars>>

\* the yield of the loop over the data moves returns
SupSeedMoveYield(moveKinds) ==
    /\ sup.pc = "seedMoves"
    /\ sup' = SeedMoves([sup EXCEPT !.move = @ + 1], moveKinds)
    /\ UNCHANGED <<ddModeKey, lockOwner, ddIsTenantAware, snapVars, libVars>>

\* a team collection fulfils the removeFailedServer promise
RemoveFailedServer ==
    /\ sup.pc = "run" /\ ~sup.removeFailedServer
    /\ sup' = [sup EXCEPT !.removeFailedServer = TRUE]
    /\ UNCHANGED <<ddModeKey, lockOwner, ddIsTenantAware, snapVars, libVars>>

\* a step of the catch block
Torn(s, name) == [s EXCEPT !.teardown = Append(@, name)]

\* getRandomHealthyTeam of a team collection: the region of the team it
\* returns, "null" when the reference holds no team collection
getRandomHealthyTeam(teamCollection, region) == IF teamCollection THEN region ELSE "null"

\* a catch block that asks the primary team collection only
PickPrimaryTeam(s) ==
    IF s.removeFailedServer
    THEN [Torn(s, "pickTeams") EXCEPT
             !.teamForDroppedRange = {getRandomHealthyTeam(s.primaryTeamCollection, "primary")}]
    ELSE s

\* the teams chosen to host the range to be dropped
PickHealthyTeams(s) ==
    IF s.removeFailedServer
    THEN [Torn(s, "pickTeams") EXCEPT
             !.teamForDroppedRange =
                 {getRandomHealthyTeam(s.primaryTeamCollection, "primary")} \cup
                 (IF s.usableRegions > 1
                  THEN {getRandomHealthyTeam(s.remoteTeamCollection, "remote")} ELSE {})]
    ELSE s

\* the catch block of the outer loop up to its first wait
SupCatch(s, e) ==
    LET s0 == PickHealthyTeams([s EXCEPT !.trackerCancelled = TRUE, !.err = e,
                                         !.errAt = IF s.pc = "run" THEN "run" ELSE "start",
                                         !.teamForDroppedRange = {}, !.teardown = <<>>])
        s1 == [Torn(s0, "dropTeamCollections") EXCEPT
                        !.teamCollection = FALSE, !.primaryTeamCollection = FALSE,
                        !.remoteTeamCollection = FALSE, !.report = "none",
                        !.actors = FALSE, !.poll = "off", !.pollThrew = "none",
                        !.output = <<>>, !.shard = 0, !.move = 0]
    IN IF e = "actor_cancelled"
       THEN Die([s1 EXCEPT !.shards = FALSE], e)
       ELSE [s1 EXCEPT !.pc = "clearAsync"]

\* a wait of the try block throws e (the actor is cancelled, a transaction
\* fails, an actor of the pipeline fails)
SupFail(e) ==
    /\ sup.pc \in TryPcs
    /\ sup' = SupCatch(sup, e)
    /\ UNCHANGED <<ddModeKey, lockOwner, ddIsTenantAware, snapVars, libVars>>

\* a catch block that restarts the outer loop on every error of normalDDQueueErrors
RestartOnNormalErrors(s) ==
    IF s.removeFailedServer THEN [s EXCEPT !.pc = "removeKeys"]
    ELSE IF s.err \notin normalDDQueueErrors THEN Die(s, s.err)
    ELSE IF s.err # "movekeys_conflict" THEN Restart(s)
    ELSE [s EXCEPT !.pc = "checkEnabled"]

\* a catch block that asks isDataDistributionEnabled whatever the error is
CheckEnabledOnAnyError(s) ==
    IF s.removeFailedServer THEN [s EXCEPT !.pc = "removeKeys"]
    ELSE [s EXCEPT !.pc = "checkEnabled"]

\* the catch block after shards.clearAsync()
AfterClearAsync(s) ==
    IF s.removeFailedServer THEN [s EXCEPT !.pc = "removeKeys"]
    ELSE IF s.err # "movekeys_conflict" THEN Die(s, s.err)
    ELSE [s EXCEPT !.pc = "checkEnabled"]

\* shards.clearAsync() returns
SupClearAsync ==
    /\ sup.pc = "clearAsync"
    /\ sup' = AfterClearAsync([Torn(sup, "clearShards") EXCEPT !.shards = FALSE])
    /\ UNCHANGED <<ddModeKey, lockOwner, ddIsTenantAware, snapVars, libVars>>

\* removeKeysFromFailedServer returns
SupRemoveKeys ==
    /\ sup.pc = "removeKeys"
    /\ sup' = [Torn(sup, "removeKeys") EXCEPT !.pc = "removeServer"]
    /\ UNCHANGED <<ddModeKey, lockOwner, ddIsTenantAware, snapVars, libVars>>

\* removeStorageServer returns
SupRemoveServer ==
    /\ sup.pc = "removeServer"
    /\ sup' = Restart(Torn(sup, "removeServer"))
    /\ UNCHANGED <<ddModeKey, lockOwner, ddIsTenantAware, snapVars, libVars>>

\* isDataDistributionEnabled, after its read of the mode key: TRUE when it
\* returns true there
isDataDistributionEnabledByMode(mode, flag) == mode # "0" /\ isDDEnabled(flag)

\* an isDataDistributionEnabled that looks at the lock owner only
EnabledByOwnerOnly(owner, flag) == owner # "dataDistributionModeLock"

\* isDataDistributionEnabled, after its read of the lock owner: what it returns
isDataDistributionEnabledByOwner(owner, flag) ==
    isDDEnabled(flag) /\ owner # "dataDistributionModeLock"

\* the catch block after isDataDistributionEnabled returned ddEnabled
AfterEnabledCheck(s, ddEnabled_) ==
    IF ddEnabled_ THEN Die([s EXCEPT !.report = "enabled"], s.err)
    ELSE Restart([s EXCEPT !.report = "disabled"])

\* isDataDistributionEnabled has read the mode key
SupCheckEnabled ==
    /\ sup.pc = "checkEnabled"
    /\ sup' = IF isDataDistributionEnabledByMode(ddModeKey, ddEnabled)
              THEN AfterEnabledCheck(sup, TRUE)
              ELSE [sup EXCEPT !.pc = "checkEnabled2", !.txnOwner = lockOwner]
    /\ UNCHANGED <<ddModeKey, lockOwner, ddIsTenantAware, snapVars, libVars>>

\* isDataDistributionEnabled has read the lock owner and returns
SupCheckEnabled2 ==
    /\ sup.pc = "checkEnabled2"
    /\ sup' = AfterEnabledCheck(sup, isDataDistributionEnabledByOwner(sup.txnOwner, ddEnabled))
    /\ UNCHANGED <<ddModeKey, lockOwner, ddIsTenantAware, snapVars, libVars>>

\* a wait of the catch block throws e
SupFailInCatch(e) ==
    /\ sup.pc \in CatchPcs
    /\ sup' = [Die(sup, e) EXCEPT !.exitBy = "catch"]
    /\ UNCHANGED <<ddModeKey, lockOwner, ddIsTenantAware, snapVars, libVars>>

\* somebody writes dataDistributionModeKey
SetDDMode(mode) ==
    /\ mode # ddModeKey
    /\ ddModeKey' = mode
    /\ UNCHANGED <<lockOwner, ddIsTenantAware, sup, snapVars, libVars>>

\* somebody else takes the move-keys lock
SetLockOwner(owner) ==
    /\ owner # lockOwner /\ owner # "self"
    /\ lockOwner' = owner
    /\ UNCHANGED <<ddModeKey, ddIsTenantAware, sup, snapVars, libVars>>

\* a check that accepts every owner
AnyOwner(owner) == TRUE

\* checkMoveKeysLockReadOnly of the poller: TRUE when it returns, FALSE when
\* it throws movekeys_conflict
checkMoveKeysLockReadOnly(owner) == owner = "self"

\* pollMoveKeysLock: the polling delay is over, a transaction is created
PollDelay ==
    /\ sup.pc = "run" /\ sup.poll = "delay"
    /\ sup' = [sup EXCEPT !.poll = "check"]
    /\ UNCHANGED <<ddModeKey, lockOwner, ddIsTenantAware, snapVars, libVars>>

\* pollMoveKeysLock: checkMoveKeysLockReadOnly has read the owner of the lock
PollCheck ==
    /\ sup.pc = "run" /\ sup.poll = "check"
    /\ sup' = [sup EXCEPT !.poll = IF checkMoveKeysLockReadOnly(lockOwner)
                                   THEN "delay" ELSE "onConflict"]
    /\ UNCHANGED <<ddModeKey, lockOwner, ddIsTenantAware, snapVars, libVars>>

\* pollMoveKeysLock: the read fails with an error that tr.onError retries
PollReadFails ==
    /\ sup.pc = "run" /\ sup.poll = "check"
    /\ sup' = [sup EXCEPT !.poll = "onError"]
    /\ UNCHANGED <<ddModeKey, lockOwner, ddIsTenantAware, snapVars, libVars>>

\* pollMoveKeysLock: tr.onError returns and the check is tried again
PollOnError ==
    /\ sup.pc = "run" /\ sup.poll = "onError"
    /\ sup' = [sup EXCEPT !.poll = "check"]
    /\ UNCHANGED <<ddModeKey, lockOwner, ddIsTenantAware, snapVars, libVars>>

\* pollMoveKeysLock: tr.onError throws movekeys_conflict, which leaves the
\* poller and fails waitForAll(actors) of the supervisor
PollThrows ==
    /\ sup.pc = "run" /\ sup.poll = "onConflict"
    /\ sup' = [SupCatch(sup, "movekeys_conflict") EXCEPT !.pollThrew = "movekeys_conflict"]
    /\ UNCHANGED <<ddModeKey, lockOwner, ddIsTenantAware, snapVars, libVars>>

(* ---------------------- datacenterReplicasKeys ------------------------- *)
\* largest replica count a datacenterReplicas key holds
MaxReplicas == 3

\* the datacenters that may have a datacenterReplicas key
DcIds == {"dc1", "dc2", "dc3"}

\* the regions of a configuration: the dcIds of regions[0] and regions[1]
RegionLists == {<<>>, <<"dc1">>, <<"dc1", "dc2">>, <<"dc2", "dc1">>}

\* the configurations getDatabaseConfiguration may return
DatabaseConfigurations ==
    [regions : RegionLists, usableRegions : 1..2, storageTeamSize : 1..MaxTeamSize]

\* the keys of datacenterReplicasKeys: the replica count of each datacenter, 0
\* for a datacenter without key
ReplicaKeys == [DcIds -> 0..MaxReplicas]

\* no configure step runs.  (before, first and commits record what the step
\* did: the keys before its first commit, the keys after it, and the number
\* of its commits)
CfgIdle ==
    [pc |-> "idle", keys |-> [dc \in DcIds |-> 0],
     configuration |-> [regions |-> <<>>, usableRegions |-> 1, storageTeamSize |-> 1],
     before |-> [dc \in DcIds |-> 0], first |-> [dc \in DcIds |-> 0], commits |-> 0]

\* the supervisor has taken the lock; the database holds keys
CfgStart(keys) == [CfgIdle EXCEPT !.pc = "config", !.keys = keys]

\* primaryDcId and remoteDcIds of a configuration, as sets
primaryDc(configuration) ==
    IF Len(configuration.regions) > 0 THEN {configuration.regions[1]} ELSE {}
remoteDc(configuration) ==
    IF Len(configuration.regions) > 1 THEN {configuration.regions[2]} ELSE {}

\* a transaction that keeps the key of the remote datacenter whatever
\* usableRegions is
KeepRemoteKey(keys, configuration) ==
    [dc \in DcIds |->
        IF dc \in primaryDc(configuration) \cup remoteDc(configuration)
        THEN Min(keys[dc], configuration.storageTeamSize)
        ELSE 0]

\* the writes of the transaction on the keys it read
updateReplicaKeys(keys, configuration) ==
    [dc \in DcIds |->
        IF keys[dc] = 0 THEN 0
        ELSE IF \/ dc \in primaryDc(configuration)
                \/ dc \in remoteDc(configuration) /\ configuration.usableRegions > 1
        THEN (IF keys[dc] > configuration.storageTeamSize
              THEN configuration.storageTeamSize ELSE keys[dc])
        ELSE 0]

envOfReplicas == <<snapVars, supVars, reader, wiggler, waiter, role>>

\* getDatabaseConfiguration returns
CfgGetConfiguration(configuration) ==
    /\ replicas.pc = "config"
    /\ replicas' = [replicas EXCEPT !.pc = "replicaKeys", !.configuration = configuration,
                                    !.commits = 0, !.before = replicas.keys,
                                    !.first = replicas.keys]
    /\ UNCHANGED envOfReplicas

\* tr.commit() returns: the supervisor goes on to getInitialDataDistribution
CfgCommit ==
    /\ replicas.pc = "replicaKeys"
    /\ LET keys == updateReplicaKeys(replicas.keys, replicas.configuration)
       IN replicas' = [replicas EXCEPT !.pc = "initDD", !.keys = keys,
                                       !.commits = @ + 1,
                                       !.first = IF replicas.commits = 0 THEN keys ELSE @]
    /\ UNCHANGED envOfReplicas

\* tr.commit() fails with commit_unknown_result after the commit was applied;
\* tr.onError returns and the transaction is run again
CfgCommitUnknownResult ==
    /\ replicas.pc = "replicaKeys"
    /\ replicas.commits = 0
    /\ LET keys == updateReplicaKeys(replicas.keys, replicas.configuration)
       IN replicas' = [replicas EXCEPT !.keys = keys, !.commits = @ + 1, !.first = keys]
    /\ UNCHANGED envOfReplicas

(* ----------------------------- dataDistributor ------------------------- *)
\* largest number of teams of the team collection
MaxTeams == 2

normalDataDistributorErrors ==
    {"worker_removed", "broken_promise", "actor_cancelled", "please_reboot",
     "movekeys_conflict", "data_move_cancelled", "data_move_dest_team_not_found"}

\* the errors with which a wait of the supervisor may fail
RoleErrors == Errors \cup {"worker_removed", "please_reboot"}

\* the storage servers getStorageServers returns: s1 has a secondary address
StorageServers ==
    {[id |-> "s1", address |-> "a1", secondaryAddress |-> {"a3"}],
     [id |-> "s2", address |-> "a2", secondaryAddress |-> {}]}

\* the exclusions of a request
ExclusionSets == SUBSET {"a1", "a2", "a3"}

\* the teams of a team collection
TeamSets ==
    {teams \in SUBSET {{"s1"}, {"s2"}, {"s1", "s2"}} : Cardinality(teams) <= MaxTeams}

\* AddressExclusion::excludes
excludes(excl, address) == excl = address

\* a translation that looks at the primary address only
PrimaryAddressOnly(exclusions, ssis) ==
    {ssi.id : ssi \in {s \in ssis : \E excl \in exclusions : excludes(excl, s.address)}}

\* excludeServerIDs: the ids of the servers an exclusion matches
excludeServerIDs(exclusions, ssis) ==
    {ssi.id : ssi \in {s \in ssis : \E excl \in exclusions :
                          \/ excludes(excl, s.address)
                          \/ \E a \in s.secondaryAddress : excludes(excl, a)}}

\* DDTeamCollection::exclusionSafetyCheck: some team holds none of the servers
exclusionSafetyCheck(teams, excludeIds) == \E team \in teams : team \cap excludeIds = {}

\* ddExclusionSafetyCheck after getStorageServers: the reply, with what the
\* actor looked at (the exclusions are not read when the reply is decided
\* before them, the teams not when there is no team collection)
ddExclusionSafetyCheck(s, teams, exclusions, ssis) ==
    IF ~s.teamCollection
    THEN [safe |-> FALSE, supPc |-> s.pc, teamCollection |-> FALSE, teams |-> {},
          exclusions |-> {}]
    ELSE IF Cardinality(teams) <= 1
    THEN [safe |-> FALSE, supPc |-> s.pc, teamCollection |-> TRUE, teams |-> teams,
          exclusions |-> {}]
    ELSE [safe |-> exclusionSafetyCheck(teams, excludeServerIDs(exclusions, ssis)),
          supPc |-> s.pc, teamCollection |-> TRUE, teams |-> teams, exclusions |-> exclusions]

\* no dataDistributor
RoleIdle == [pc |-> "off", haltReply |-> <<>>, exitErr |-> "none", check |-> "none", reply |-> <<>>]

\* the role after its start, in its loop
RoleStart == [RoleIdle EXCEPT !.pc = "running"]

\* the actors of the role are dropped with it
DropActors(r) == [r EXCEPT !.check = IF @ = "getStorageServers" THEN "cancelled" ELSE @]

\* the supervisor is cancelled at the wait it is in
CancelSup(s) ==
    IF s.pc \in TryPcs THEN SupCatch(s, "actor_cancelled")
    ELSE IF s.pc \in CatchPcs THEN [Die(s, "actor_cancelled") EXCEPT !.exitBy = "catch"]
    ELSE s

\* a catch block that lets every error but a cancellation out
RethrowUnlessCancelled(r, err) ==
    IF err # "actor_cancelled"
    THEN [DropActors(r) EXCEPT !.pc = "failed", !.exitErr = err]
    ELSE [DropActors(r) EXCEPT !.pc = "returned"]

\* the catch block of dataDistributor
dataDistributorCatch(r, err) ==
    IF err \notin normalDataDistributorErrors
    THEN [DropActors(r) EXCEPT !.pc = "failed", !.exitErr = err]
    ELSE [DropActors(r) EXCEPT !.pc = "returned"]

RoleLoops == role.pc = "running" /\ sup.pc # "dead"

\* a HaltDataDistributorRequest arrives
RoleHalt ==
    /\ RoleLoops
    /\ role' = [DropActors(role) EXCEPT !.haltReply = Append(@, "Void"), !.pc = "returned"]
    /\ sup' = CancelSup(sup)
    /\ UNCHANGED <<ddModeKey, lockOwner, ddIsTenantAware, snapVars, reader, wiggler, waiter, replicas>>

\* the supervisor has thrown: distributor || collection throws in the loop
RoleDistributorError ==
    /\ role.pc = "running" /\ sup.pc = "dead"
    /\ role' = dataDistributorCatch(role, sup.exitErr)
    /\ UNCHANGED <<snapVars, supVars, reader, wiggler, waiter, replicas>>

\* a DistributorExclusionSafetyCheckRequest arrives: ddExclusionSafetyCheck
\* runs to its wait
EcArrive ==
    /\ RoleLoops
    /\ role.check \in {"none", "done"}
    /\ role' = [role EXCEPT !.check = "getStorageServers", !.reply = <<>>]
    /\ UNCHANGED <<snapVars, supVars, reader, wiggler, waiter, replicas>>

\* getStorageServers returns: ddExclusionSafetyCheck replies and ends
EcReply(teams, exclusions) ==
    /\ RoleLoops
    /\ role.check = "getStorageServers"
    /\ role' = [role EXCEPT
                   !.check = "done",
                   !.reply = Append(@, ddExclusionSafetyCheck(sup, teams, exclusions,
                                                              StorageServers))]
    /\ UNCHANGED <<snapVars, supVars, reader, wiggler, waiter, replicas>>

(* ------------------------- waitForMost and time ------------------------ *)
\* largest number of futures handed to waitForMost
MaxFutures == 3
\* largest duration after which a future becomes ready
MaxDuration == 3
\* largest waitMultiplierForSlowFutures
MaxMultiplier == 1

\* the futures of one call: each becomes ready "at" time units after the call,
\* with a present result or with an error result
FutureLists ==
    UNION {[1..n -> [at : 1..MaxDuration, present : BOOLEAN]] : n \in 1..MaxFutures}

\* no call of waitForMost
WtIdle ==
    [pc |-> "idle", futures |-> <<>>, faultTolerance |-> 0, waitMultiplier |-> 0, now |-> 0,
     startTime |-> 0, ready |-> {}, deadline |-> 0, quorumAt |-> -1, e |-> "none",
     err |-> "none"]

\* the call up to its first wait
WtStart(futures, faultTolerance, e, waitMultiplier, now) ==
    [WtIdle EXCEPT !.pc = "quorum", !.futures = futures, !.faultTolerance = faultTolerance,
                   !.waitMultiplier = waitMultiplier, !.now = now, !.startTime = now, !.e = e]

\* successFutures that are ready with value b
SuccessFutures(w, b) == {i \in w.ready : w.futures[i].present = b}

\* a quorum that is reached one success early
QuorumOneShort(w) ==
    IF Cardinality(SuccessFutures(w, TRUE)) >= Len(w.futures) - w.faultTolerance - 1
    THEN "true"
    ELSE IF Cardinality(SuccessFutures(w, FALSE)) >= w.faultTolerance + 1 THEN "false"
    ELSE "pending"

\* quorumEqualsTrue(successFutures, size - faultTolerance): true once that many
\* futures are true, false once so many are false that it cannot be reached
quorumEqualsTrue(w) ==
    IF Cardinality(SuccessFutures(w, TRUE)) >= Len(w.futures) - w.faultTolerance THEN "true"
    ELSE IF Cardinality(SuccessFutures(w, FALSE)) >= w.faultTolerance + 1 THEN "false"
    ELSE "pending"

\* a delay for slow futures that does not depend on the time elapsed
OneUnitDelay(w) == 1

\* the delay granted to slow futures
SlowDelay(w) == (w.now - w.startTime) * w.waitMultiplier

\* a wait for slow futures that only the delay ends
DelayOnly(w) == FALSE

\* waitForAll(successFutures) is ready
waitForAllReady(w) == w.ready = 1..Len(w.futures)

\* waitForMost runs as far as it can after one of its futures became ready
WtRun(w) ==
    IF w.pc = "quorum"
    THEN CASE quorumEqualsTrue(w) = "false" -> [w EXCEPT !.pc = "thrown", !.err = w.e]
           [] quorumEqualsTrue(w) = "true" ->
                [w EXCEPT !.pc = IF waitForAllReady(w) THEN "returned" ELSE "slow",
                          !.deadline = w.now + SlowDelay(w), !.quorumAt = w.now]
           [] OTHER -> w
    ELSE IF waitForAllReady(w) THEN [w EXCEPT !.pc = "returned"] ELSE w

envOfWaiter == <<snapVars, supVars, reader, wiggler, role, replicas>>

\* future i becomes ready
WtFutureReady(i) ==
    /\ waiter.pc \in {"quorum", "slow"}
    /\ i \in (1..Len(waiter.futures)) \ waiter.ready
    /\ waiter.futures[i].at = waiter.now - waiter.startTime
    /\ waiter' = WtRun([waiter EXCEPT !.ready = @ \cup {i}])
    /\ UNCHANGED envOfWaiter

\* the delay for slow futures fires
WtDelayFires ==
    /\ waiter.pc = "slow"
    /\ waiter.now = waiter.deadline
    /\ waiter' = [waiter EXCEPT !.pc = "returned"]
    /\ UNCHANGED envOfWaiter

\* time passes: nothing is due now
WtTick ==
    /\ waiter.pc \in {"quorum", "slow"}
    /\ \A i \in (1..Len(waiter.futures)) \ waiter.ready :
          waiter.futures[i].at # waiter.now - waiter.startTime
    /\ ~(waiter.pc = "slow" /\ waiter.now = waiter.deadline)
    /\ waiter.now - waiter.startTime < MaxDuration
    /\ waiter' = [waiter EXCEPT !.now = @ + 1]
    /\ UNCHANGED envOfWaiter

(* --------------------------- StorageWiggler ---------------------------- *)
\* number of storage server ids
NumServers == 3
\* largest createdTime of a StorageMetadataType
MaxCreatedTime == 2

ServerIds == 1..NumServers
\* StorageMetadataType, as far as the queue looks at it: createdTime and the
\* flag that marks the server for wiggling
StorageMetadata == [createdTime : 1..MaxCreatedTime, flag : BOOLEAN]

\* the order of StorageMetadataType: flagged servers first, then by createdTime
MetadataBefore(a, b) == IF a.flag = b.flag THEN a.createdTime < b.createdTime ELSE a.flag

\* the comparator of wiggle_pq on pairs of metadata and server id: TRUE when
\* a is popped before b
PoppedBefore(a, b) ==
    IF a.first = b.first THEN a.second < b.second ELSE MetadataBefore(a.first, b.first)

\* a queue that hands out its last pair
WigglePqBottom(pq) == CHOOSE e \in pq : \A f \in pq \ {e} : PoppedBefore(f, e)

\* wiggle_pq.top()
WigglePqTop(pq) == CHOOSE e \in pq : \A f \in pq \ {e} : PoppedBefore(e, f)

\* the wiggler when it is constructed.  (popped, ret and removed record what
\* was done since the last addServer or updateMetadata: the pairs popped, the
\* result of the last call if it was getNextServerId (0 for an absent id, -1
\* when the last call was another one), and
\* the id of the last removeServer (0 when there was none))
WigglerInit ==
    [wiggle_pq |-> {}, pq_handles |-> {}, nonEmpty |-> FALSE,
     popped |-> <<>>, ret |-> -1, removed |-> 0]

contains(w, serverId) == serverId \in w.pq_handles

\* an insertion that leaves the notifier alone
AddServerSilently(w, serverId, metadata) ==
    [w EXCEPT !.pq_handles = @ \cup {serverId},
              !.wiggle_pq = @ \cup {[first |-> metadata, second |-> serverId]}]

addServer(w, serverId, metadata) ==
    [w EXCEPT !.pq_handles = @ \cup {serverId},
              !.wiggle_pq = @ \cup {[first |-> metadata, second |-> serverId]},
              !.nonEmpty = TRUE]

\* a removal that takes the head of the queue when the server is not in it
RemoveServerOrHead(w, serverId) ==
    LET gone == IF contains(w, serverId) THEN {e \in w.wiggle_pq : e.second = serverId}
                ELSE IF w.wiggle_pq # {} THEN {WigglePqTop(w.wiggle_pq)} ELSE {}
        pq == w.wiggle_pq \ gone
    IN [w EXCEPT !.pq_handles = @ \ ({serverId} \cup {e.second : e \in gone}),
                 !.wiggle_pq = pq, !.nonEmpty = (pq # {})]

removeServer(w, serverId) ==
    LET pq == IF contains(w, serverId)
              THEN {e \in w.wiggle_pq : e.second # serverId} ELSE w.wiggle_pq
    IN [w EXCEPT !.pq_handles = @ \ {serverId}, !.wiggle_pq = pq, !.nonEmpty = (pq # {})]

\* an update that pushes the new pair and leaves the old one in the queue
UpdateKeepingOld(w, serverId, metadata) ==
    [w EXCEPT !.wiggle_pq = @ \cup {[first |-> metadata, second |-> serverId]}]

updateMetadata(w, serverId, metadata) ==
    LET handle == CHOOSE e \in w.wiggle_pq : e.second = serverId
    IN IF handle.first = metadata THEN w
       ELSE [w EXCEPT !.wiggle_pq = (@ \ {handle}) \cup {[first |-> metadata, second |-> serverId]}]

\* a pop that keeps the handle of the server it returns
PopKeepingHandle(w) ==
    IF w.wiggle_pq # {}
    THEN LET top == WigglePqTop(w.wiggle_pq)
         IN [w EXCEPT !.wiggle_pq = @ \ {top}, !.popped = Append(@, top), !.ret = top.second]
    ELSE [w EXCEPT !.ret = 0]

\* getNextServerId: the wiggler it leaves; the id it returns is kept in ret
getNextServerId(w) ==
    IF w.wiggle_pq # {}
    THEN LET top == WigglePqTop(w.wiggle_pq)
         IN [w EXCEPT !.wiggle_pq = @ \ {top}, !.pq_handles = @ \ {top.second},
                      !.popped = Append(@, top), !.ret = top.second]
    ELSE [w EXCEPT !.ret = 0]

envOfWiggler == <<snapVars, supVars, reader, waiter, role, replicas>>

AddServer(serverId, metadata) ==
    /\ ~contains(wiggler, serverId)
    /\ wiggler' = [addServer(wiggler, serverId, metadata) EXCEPT
                      !.popped = <<>>, !.ret = -1, !.removed = 0]
    /\ UNCHANGED envOfWiggler

RemoveServer(serverId) ==
    /\ wiggler' = [removeServer(wiggler, serverId) EXCEPT !.ret = -1, !.removed = serverId]
    /\ UNCHANGED envOfWiggler

UpdateMetadata(serverId, metadata) ==
    /\ contains(wiggler, serverId)
    /\ wiggler' = [updateMetadata(wiggler, serverId, metadata) EXCEPT
                      !.popped = <<>>, !.ret = -1, !.removed = 0]
    /\ UNCHANGED envOfWiggler

GetNextServerId ==
    /\ wiggler' = getNextServerId(wiggler)
    /\ UNCHANGED envOfWiggler

(* --------------------- getInitialDataDistribution ---------------------- *)
\* allKeys is the range [0, MaxKey)
MaxKey == 2
\* largest number of ranges one call of krmGetRanges returns
MaxChunk == 2
\* largest number of attempts of the first transaction
MaxAttempts == 2

anonymousShardId == "anonymous"

\* the ascending sequence of a set of integers
RECURSIVE SortedSeq(_)
SortedSeq(S) ==
    IF S = {} THEN <<>>
    ELSE LET m == CHOOSE x \in S : \A y \in S : x <= y
         IN <<m>> \o SortedSeq(S \ {m})

\* what a key-server range decodes to (decodeKeyServersValue): a source
\* team and no destination, or a source team and a destination team with the
\* id of its move
ShardValues ==
    {[hasDest |-> FALSE, destId |-> anonymousShardId, src |-> {"s1", "s2"}, dest |-> {}]} \cup
    {[hasDest |-> TRUE, destId |-> anonymousShardId, src |-> {"s1"}, dest |-> {"s2"}],
     [hasDest |-> TRUE, destId |-> "m1", src |-> {"s2"}, dest |-> {"s1", "s2"}],
     [hasDest |-> TRUE, destId |-> "m2", src |-> {"s1", "s2"}, dest |-> {"s1"}]}

\* the rows of serverListKeys a transaction may read: the regular servers in
\* key order, and the test-storage servers
ServerLists == {<<"s1", "s2">>}
TssLists == {<<>>, <<"t1">>}

\* DataMove(): the value of the ranges of dataMoveMap that hold no move
NoDataMove ==
    [valid |-> FALSE, cancelled |-> FALSE, id |-> "none", begin |-> 0, end |-> 0,
     src |-> {}, dest |-> {}, primarySrc |-> {}, remoteSrc |-> {},
     primaryDest |-> {}, remoteDest |-> {}]

\* the rows of dataMoveKeys a transaction may read: no move, or the move
\* "m1" of a non-empty range
MoveRows ==
    {row \in [id : {"m1"}, begin : 0..MaxKey, end : 0..MaxKey, src : {{"s1", "s2"}},
              dest : {{"s1"}, {"s1", "s2"}}, deleting : BOOLEAN] : row.begin < row.end}
DataMoveRows == {<<>>} \cup {<<row>> : row \in MoveRows}

\* the datacenter of a storage server
DcOf(id) == IF id = "s2" THEN "dc2" ELSE "dc1"
\* the remote datacenters of the configuration: none, or dc2
RemoteDcIds == {{}, {"dc2"}}

\* the calls of getInitialDataDistribution: remoteDcIds and the knob
\* SHARD_ENCODE_LOCATION_METADATA (one region is run with the knob on only)
Configurations == {c \in RemoteDcIds \X BOOLEAN : c[1] # {} \/ c[2]}

\* a split by datacenter that puts every server of a team in the remote list
\* when a remote datacenter is configured
AllRemote(ids, server_dc, remoteDcIds) == IF remoteDcIds = {} THEN {} ELSE ids

\* the servers of ids that the loops over src and dest put in the remote
\* list: server_dc[id] is absent for a server the server list did not hold
Remote(ids, server_dc, remoteDcIds) == {id \in ids : id \in server_dc /\ DcOf(id) \in remoteDcIds}
Primary(ids, server_dc, remoteDcIds) == ids \ Remote(ids, server_dc, remoteDcIds)

\* DataMove(meta, true) of a row of dataMoveKeys, with its destination split
\* by datacenter
MakeDataMove(row, server_dc, remoteDcIds) ==
    [valid |-> TRUE, cancelled |-> row.deleting, id |-> row.id, begin |-> row.begin,
     end |-> row.end, src |-> row.src, dest |-> row.dest,
     primarySrc |-> Primary(row.src, server_dc, remoteDcIds),
     remoteSrc |-> Remote(row.src, server_dc, remoteDcIds),
     primaryDest |-> Primary(row.dest, server_dc, remoteDcIds),
     remoteDest |-> Remote(row.dest, server_dc, remoteDcIds)]

\* DDShardInfo of a key-server range that starts at key (src and dest are the
\* teams the range decodes to, kept with the shard).  team_cache holds, for a
\* team, the split computed when the team was first met: server_dc does not
\* change while the key servers are read, so the cached split is the split.
MakeShard(key, v, server_dc, remoteDcIds) ==
    IF remoteDcIds # {}
    THEN [key |-> key, hasDest |-> v.hasDest, destId |-> v.destId,
          src |-> v.src, dest |-> v.dest,
          primarySrc |-> Primary(v.src, server_dc, remoteDcIds),
          remoteSrc |-> Remote(v.src, server_dc, remoteDcIds),
          primaryDest |-> Primary(v.dest, server_dc, remoteDcIds),
          remoteDest |-> Remote(v.dest, server_dc, remoteDcIds)]
    ELSE [key |-> key, hasDest |-> v.hasDest, destId |-> v.destId,
          src |-> v.src, dest |-> v.dest,
          primarySrc |-> v.src, remoteSrc |-> {},
          primaryDest |-> v.dest, remoteDest |-> {}]

\* DDShardInfo(allKeys.end)
SentinelShard ==
    [key |-> MaxKey, hasDest |-> FALSE, destId |-> anonymousShardId,
     src |-> {}, dest |-> {}, primarySrc |-> {}, remoteSrc |-> {},
     primaryDest |-> {}, remoteDest |-> {}]

\* dataMoveMap[key]: the index of the move whose range holds key, 0 for the
\* ranges that hold no move
MoveAt(dataMoveMap, key) ==
    IF \E k \in 1..Len(dataMoveMap) : dataMoveMap[k].begin <= key /\ key < dataMoveMap[k].end
    THEN CHOOSE k \in 1..Len(dataMoveMap) :
             dataMoveMap[k].begin <= key /\ key < dataMoveMap[k].end
    ELSE 0

\* a validation that cancels a valid move whose range does not contain the
\* range of the shard, and goes on
validateShardTolerant(move, shard, begin, end) ==
    IF ~move.valid
    THEN [move |-> move, abort |-> FALSE,
          reason |-> IF shard.hasDest /\ shard.destId # anonymousShardId
                     THEN "DataMoveMissing" ELSE "none"]
    ELSE IF ~(move.begin <= begin /\ end <= move.end) \/ ~shard.hasDest
            \/ shard.destId # move.id
            \/ ~(shard.primaryDest \subseteq move.primaryDest)
            \/ ~(shard.remoteDest \subseteq move.remoteDest)
    THEN [move |-> [move EXCEPT !.cancelled = TRUE], abort |-> FALSE,
          reason |-> "DataMoveValidationError"]
    ELSE [move |-> move, abort |-> FALSE, reason |-> "none"]

\* DataMove::validateShard on the range [begin, end) of shard: the move it
\* leaves, the reason of the error event it emits ("none" without event), and
\* whether its assertion fails
validateShard(move, shard, begin, end) ==
    IF ~move.valid
    THEN [move |-> move, abort |-> FALSE,
          reason |-> IF shard.hasDest /\ shard.destId # anonymousShardId
                     THEN "DataMoveMissing" ELSE "none"]
    ELSE IF ~(move.begin <= begin /\ end <= move.end)
    THEN [move |-> move, abort |-> TRUE, reason |-> "none"]
    ELSE IF ~shard.hasDest
    THEN [move |-> [move EXCEPT !.cancelled = TRUE], abort |-> FALSE,
          reason |-> "ShardMissingDest"]
    ELSE IF shard.destId # move.id
    THEN [move |-> [move EXCEPT !.cancelled = TRUE], abort |-> FALSE,
          reason |-> "DataMoveIDMissMatch"]
    ELSE IF ~(shard.primaryDest \subseteq move.primaryDest)
            \/ ~(shard.remoteDest \subseteq move.remoteDest)
    THEN [move |-> [move EXCEPT !.cancelled = TRUE], abort |-> FALSE,
          reason |-> "DataMoveDestMissMatch"]
    ELSE [move |-> move, abort |-> FALSE, reason |-> "none"]

\* the actor when it is called.  (attempts, scanRetried, chunks, read, early,
\* events and err record what the actor did: the attempts of the first
\* transaction while it runs, whether a transaction of the scan was retried,
\* the calls of krmGetRanges that returned, the rows the last attempt of the
\* first transaction read and the keys krmGetRanges returned, the value of
\* dataDistributionModeKey read by the attempt that took the early return
\* ("none" when it was not taken), the error events of the validation, the
\* error that ended the actor.  output is what the loop of the supervisor over
\* dataMoveMap sends and relocations what its loop over the shards sends, in
\* the order sent, restored the ranges for which that loop restarted the shard
\* tracker and defined a shard, with the teams it moved the shard to;
\* storageTeamSize and DD_FRAMEWORK are the configuration and
\* the knob these loops read.)
RdStart(remoteDcIds, encode) ==
    [pc |-> "healthyZone", remoteDcIds |-> remoteDcIds,
     SHARD_ENCODE_LOCATION_METADATA |-> encode,
     server_dc |-> {}, tss_servers |-> <<>>, beginKey |-> 0,
     result |-> [mode |-> "unset", allServers |-> <<>>, shards |-> <<>>, dataMoveMap |-> <<>>],
     attempts |-> 1, scanRetried |-> FALSE, chunks |-> 0,
     read |-> [servers |-> <<>>, tss |-> <<>>, rows |-> <<>>, keys |-> {}], early |-> "none",
     events |-> <<>>, err |-> "none", output |-> <<>>,
     storageTeamSize |-> 0, DD_FRAMEWORK |-> FALSE, relocations |-> <<>>,
     restored |-> <<>>]

\* no call of getInitialDataDistribution is in progress
RdIdle == [RdStart({}, FALSE) EXCEPT !.pc = "idle"]

Phase1Pcs == {"healthyZone", "mode", "lists", "dataMoves"}
Phase2Pcs == {"checkLock", "serverTags", "keyServers"}

\* an error leaves the actor: its locals and its result are gone
RdThrow(r, e) ==
    [RdStart(r.remoteDcIds, r.SHARD_ENCODE_LOCATION_METADATA) EXCEPT
        !.pc = "failed", !.err = e]

\* the value of result->mode after the read of dataDistributionModeKey
DecodeMode(mode, key) == IF key = "absent" THEN mode ELSE IF key = "0" THEN 0 ELSE 1

\* the loop that validates the shards against dataMoveMap, from shard on
\* (shards are counted from 1)
RECURSIVE ValidateShards(_, _)
ValidateShards(r, shard) ==
    IF shard > Len(r.result.shards) - 1 THEN r
    ELSE LET iShard == r.result.shards[shard]
             k == MoveAt(r.result.dataMoveMap, iShard.key)
             move == IF k = 0 THEN NoDataMove ELSE r.result.dataMoveMap[k]
             v == validateShard(move, iShard, iShard.key, r.result.shards[shard + 1].key)
             r1 == [r EXCEPT
                       !.events = IF v.reason = "none" THEN @
                                  ELSE Append(@, [reason |-> v.reason, shard |-> shard]),
                       !.result.dataMoveMap = IF k = 0 THEN @ ELSE [@ EXCEPT ![k] = v.move]]
         IN IF v.abort THEN RdThrow(r, "internal_error") ELSE ValidateShards(r1, shard + 1)

\* a reader that returns the shards as the scan left them
ReturnUnvalidated(r) ==
    [r EXCEPT !.pc = "done",
              !.result.shards = Append(@, SentinelShard),
              !.result.allServers = @ \o r.tss_servers]

\* the code after the scan: the sentinel, the validation, the test-storage
\* servers, the return
AfterScan(r) ==
    LET r1 == [r EXCEPT !.result.shards = Append(@, SentinelShard)]
        r2 == IF r.SHARD_ENCODE_LOCATION_METADATA THEN ValidateShards(r1, 1) ELSE r1
    IN IF r2.pc = "failed" THEN r2
       ELSE [r2 EXCEPT !.pc = "done", !.result.allServers = @ \o r.tss_servers]

\* a loop that restores every valid move
RecoverValidMove(move, encode) ==
    IF move.valid
    THEN <<[cancelled |-> FALSE, dataMoveId |-> move.id, begin |-> move.begin,
            end |-> move.end, restore |-> TRUE]>>
    ELSE <<>>

\* a loop that cancels the cancelled moves only
CancelOnlyCancelled(move, encode) ==
    IF move.cancelled
    THEN <<[cancelled |-> TRUE, dataMoveId |-> move.id, begin |-> move.begin,
            end |-> move.end, restore |-> FALSE]>>
    ELSE IF move.valid
    THEN <<[cancelled |-> FALSE, dataMoveId |-> move.id, begin |-> move.begin,
            end |-> move.end, restore |-> TRUE]>>
    ELSE <<>>

\* the relocation the loop of the supervisor over dataMoveMap sends for a move
MoveRelocation(move, encode) ==
    IF move.cancelled \/ (move.valid /\ ~encode)
    THEN <<[cancelled |-> TRUE, dataMoveId |-> move.id, begin |-> move.begin,
            end |-> move.end, restore |-> FALSE]>>
    ELSE IF move.valid
    THEN <<[cancelled |-> FALSE, dataMoveId |-> move.id, begin |-> move.begin,
            end |-> move.end, restore |-> TRUE]>>
    ELSE <<>>

\* the relocations sent for the ranges of dataMoveMap from the k-th move on
RECURSIVE MoveRelocations(_, _, _)
MoveRelocations(dataMoveMap, k, encode) ==
    IF k > Len(dataMoveMap) THEN <<>>
    ELSE MoveRelocation(dataMoveMap[k], encode) \o MoveRelocations(dataMoveMap, k + 1, encode)

\* what the seeding loops read besides the snapshot: the storageTeamSize of
\* the configuration and the knob DD_FRAMEWORK
SeedOptions ==
    {[storageTeamSize |-> 1, DD_FRAMEWORK |-> FALSE],
     [storageTeamSize |-> 2, DD_FRAMEWORK |-> TRUE]}

\* the regions the supervisor counts as usable: remoteDcIds is passed to the
\* reader non-empty exactly when configuration.usableRegions > 1
usableRegions(remoteDcIds) == IF remoteDcIds # {} THEN 2 ELSE 1

\* a seeding loop that looks at the primary source team only
PrimaryTeamUnhealthy(iShard, regions, storageTeamSize) ==
    Cardinality(iShard.primarySrc) # storageTeamSize

\* bool unhealthy of the loop over the shards
unhealthy(iShard, regions, storageTeamSize) ==
    \/ Cardinality(iShard.primarySrc) # storageTeamSize
    \/ regions > 1 /\ Cardinality(iShard.remoteSrc) # storageTeamSize

\* the relocations the loop of the supervisor over the shards sends from the
\* k-th shard on (the sentinel is not a shard)
RECURSIVE ShardRelocations(_, _, _, _)
ShardRelocations(shards, k, regions, storageTeamSize) ==
    IF k > Len(shards) - 1 THEN <<>>
    ELSE LET iShard == shards[k]
             rs == [begin |-> iShard.key, end |-> shards[k + 1].key,
                    priority |-> IF unhealthy(iShard, regions, storageTeamSize)
                                 THEN "PRIORITY_TEAM_UNHEALTHY" ELSE "PRIORITY_RECOVER_MOVE"]
         IN (IF iShard.hasDest /\ iShard.destId = anonymousShardId THEN <<rs>> ELSE <<>>)
            \o ShardRelocations(shards, k + 1, regions, storageTeamSize)

\* what the loop over dataMoveMap does to shardsAffectedByTeamFailure for the
\* moves from the k-th on: for a move it restores, restartShardTracker,
\* defineShard and moveShard to the destination teams of the move
RECURSIVE MoveRestores(_, _, _)
MoveRestores(dataMoveMap, k, encode) ==
    IF k > Len(dataMoveMap) THEN <<>>
    ELSE LET move == dataMoveMap[k]
             rs == MoveRelocation(move, encode)
             teams == {[servers |-> move.primaryDest, primary |-> TRUE]} \cup
                      (IF move.remoteDest # {}
                       THEN {[servers |-> move.remoteDest, primary |-> FALSE]} ELSE {})
         IN (IF rs # <<>> /\ rs[1].restore
             THEN <<[begin |-> move.begin, end |-> move.end, teams |-> teams]>> ELSE <<>>)
            \o MoveRestores(dataMoveMap, k + 1, encode)

envOfReader == <<snapVars, supVars, wiggler, waiter, role, replicas>>

\* tr.get(healthyZoneKey) returns
RdHealthyZone ==
    /\ reader.pc = "healthyZone"
    /\ reader' = [reader EXCEPT !.pc = "mode", !.result.mode = 1]
    /\ UNCHANGED envOfReader

\* tr.get(dataDistributionModeKey) returns key
RdMode(key) ==
    /\ reader.pc = "mode"
    /\ LET m == DecodeMode(reader.result.mode, key)
       IN reader' = IF DisabledDD(m, ddEnabled)
                    THEN [reader EXCEPT !.result.mode = m, !.pc = "done", !.early = key]
                    ELSE [reader EXCEPT !.result.mode = m, !.pc = "lists"]
    /\ UNCHANGED envOfReader

\* getWorkers and getRange(serverListKeys) return
RdLists(servers, tss) ==
    /\ reader.pc = "lists"
    /\ reader' = [reader EXCEPT
                     !.pc = "dataMoves",
                     !.result.allServers = @ \o servers,
                     !.server_dc = @ \cup {servers[i] : i \in 1..Len(servers)},
                     !.tss_servers = @ \o tss,
                     !.read = [@ EXCEPT !.servers = servers, !.tss = tss]]
    /\ UNCHANGED envOfReader

\* getRange(dataMoveKeys) returns: the end of the first transaction
RdDataMoves(rows) ==
    /\ reader.pc = "dataMoves"
    /\ reader' = [reader EXCEPT
                     !.pc = "checkLock", !.attempts = 0,
                     !.result.dataMoveMap =
                         [k \in 1..Len(rows) |->
                             MakeDataMove(rows[k], reader.server_dc, reader.remoteDcIds)],
                     !.read = [@ EXCEPT !.rows = rows]]
    /\ UNCHANGED envOfReader

\* a wait of the first transaction throws an error that tr.onError retries
RdFail1 ==
    /\ reader.pc \in Phase1Pcs
    /\ reader.attempts < MaxAttempts
    /\ reader' = [reader EXCEPT !.pc = "onError1"]
    /\ UNCHANGED envOfReader

\* tr.onError returns: the next attempt of the first transaction
RdOnError1 ==
    /\ reader.pc = "onError1"
    /\ reader' = [reader EXCEPT !.pc = "healthyZone", !.attempts = @ + 1,
                                !.server_dc = {}, !.result.allServers = <<>>]
    /\ UNCHANGED envOfReader

\* checkMoveKeysLockReadOnly returns
RdCheckLock ==
    /\ reader.pc = "checkLock"
    /\ reader' = [reader EXCEPT !.pc = "serverTags"]
    /\ UNCHANGED envOfReader

\* getRange(serverTagKeys) returns
RdServerTags ==
    /\ reader.pc = "serverTags"
    /\ reader' = [reader EXCEPT !.pc = "keyServers"]
    /\ UNCHANGED envOfReader

\* what krmGetRanges may return from beginKey: the boundaries after beginKey
\* it stopped at, at most MaxChunk of them and at least one
Chunks(beginKey) ==
    {S \in SUBSET ((beginKey + 1)..MaxKey) : S # {} /\ Cardinality(S) <= MaxChunk}

\* a scan that goes on behind the last key krmGetRanges returned
KeyAfterLast(keys) == Min(keys[Len(keys)] + 1, MaxKey)

\* a scan that begins the next chunk where this one began
SameBeginKey(keys) == keys[1]

\* the key at which the next call of krmGetRanges begins
NextBeginKey(keys) == keys[Len(keys)]

\* krmGetRanges returns the ranges that start at beginKey and at the keys of
\* S but the last, holding the values vals
RdKeyServers(S, vals) ==
    /\ reader.pc = "keyServers"
    /\ S \in Chunks(reader.beginKey)
    /\ LET keys == <<reader.beginKey>> \o SortedSeq(S)
           infos == [i \in 1..(Len(keys) - 1) |->
                        MakeShard(keys[i], vals[i], reader.server_dc, reader.remoteDcIds)]
           r == [reader EXCEPT !.result.shards = @ \o infos,
                               !.beginKey = NextBeginKey(keys),
                               !.chunks = @ + 1,
                               !.read.keys = @ \cup {reader.beginKey} \cup S]
       IN reader' = IF r.beginKey < MaxKey THEN [r EXCEPT !.pc = "checkLock"]
                    ELSE AfterScan(r)
    /\ UNCHANGED envOfReader

\* a wait of a transaction of the scan throws an error that tr.onError retries
RdFail2 ==
    /\ reader.pc \in Phase2Pcs
    /\ reader' = [reader EXCEPT !.pc = "onError2", !.scanRetried = TRUE]
    /\ UNCHANGED envOfReader

\* a retry that starts the scan over and keeps what was appended
RetryFromStart ==
    /\ reader.pc = "onError2"
    /\ reader' = [reader EXCEPT !.pc = "checkLock", !.beginKey = 0]
    /\ UNCHANGED envOfReader

\* tr.onError returns: the next attempt of the transaction of the scan
RdOnError2 ==
    /\ reader.pc = "onError2"
    /\ reader' = [reader EXCEPT !.pc = "checkLock"]
    /\ UNCHANGED envOfReader

\* a wait throws an error that tr.onError throws again, or the actor is
\* cancelled
RdAbort(e) ==
    /\ reader.pc \in Phase1Pcs \cup Phase2Pcs \cup {"onError1", "onError2"}
    /\ reader' = RdThrow(reader, e)
    /\ UNCHANGED envOfReader

\* the supervisor passes the gate with the snapshot and loops over the shards
\* and over dataMoveMap (the yields of the loops are not modelled: nothing
\* else reads or writes the snapshot); the reader is gone, its snapshot and the
\* events stay.  With the knob DD_FRAMEWORK the relocations are handed to the
\* event buffer instead of the relocate stream.
RdSeedMoves(storageTeamSize, framework) ==
    /\ reader.pc = "done"
    /\ DDGate(reader.result.mode, ddEnabled)
    /\ reader' = [RdStart(reader.remoteDcIds, reader.SHARD_ENCODE_LOCATION_METADATA) EXCEPT
                     !.pc = "seeded", !.attempts = 0, !.early = reader.early,
                     !.read = reader.read,
                     !.result = reader.result, !.events = reader.events,
                     !.storageTeamSize = storageTeamSize, !.DD_FRAMEWORK = framework,
                     !.relocations = ShardRelocations(reader.result.shards, 1,
                                                      usableRegions(reader.remoteDcIds),
                                                      storageTeamSize),
                     !.output = MoveRelocations(reader.result.dataMoveMap, 1,
                                                reader.SHARD_ENCODE_LOCATION_METADATA),
                     !.restored = MoveRestores(reader.result.dataMoveMap, 1,
                                               reader.SHARD_ENCODE_LOCATION_METADATA)]
    /\ UNCHANGED envOfReader

InitReader ==
    /\ ddEnabled \in BOOLEAN
    /\ localLogs = TLogs
    /\ writeRecoveryKey = FALSE
    /\ snapPc = [i \in Snaps |-> "none"]
    /\ snapReply = [i \in Snaps |-> <<>>]
    /\ core = [i \in Snaps |-> CoreInit]
    /\ ddModeKey = "absent"
    /\ lockOwner = "self"
    /\ ddIsTenantAware = FALSE
    /\ sup = SupInit
    /\ reader \in {RdStart(c[1], c[2]) : c \in Configurations}
    /\ wiggler = WigglerInit
    /\ waiter = WtIdle
    /\ role = RoleIdle
    /\ replicas = CfgIdle

\* one call of getInitialDataDistribution, and the loop of the supervisor over
\* the data moves of the snapshot it returns
NextReader ==
    \/ RdHealthyZone
    \/ \E key \in ModeValues : RdMode(key)
    \/ \E servers \in ServerLists, tss \in TssLists : RdLists(servers, tss)
    \/ \E rows \in DataMoveRows : RdDataMoves(rows)
    \/ RdFail1
    \/ RdOnError1
    \/ RdCheckLock
    \/ RdServerTags
    \/ \E S \in Chunks(reader.beginKey) :
          \E vals \in [1..Cardinality(S) -> ShardValues] : RdKeyServers(S, vals)
    \/ RdFail2
    \/ RdOnError2
    \/ \E e \in {"movekeys_conflict", "actor_cancelled"} : RdAbort(e)
    \/ \E o \in SeedOptions : RdSeedMoves(o.storageTeamSize, o.DD_FRAMEWORK)

\* the reader of the initial state
SpecReader == InitReader /\ [][NextReader]_vars

\* one call of getInitialDataDistribution while the move-keys lock stays held
\* and the actor is not cancelled: no wait throws an error that tr.onError
\* throws again
NextScan ==
    \/ RdHealthyZone
    \/ \E key \in ModeValues : RdMode(key)
    \/ \E servers \in ServerLists, tss \in TssLists : RdLists(servers, tss)
    \/ \E rows \in DataMoveRows : RdDataMoves(rows)
    \/ RdCheckLock
    \/ RdServerTags
    \/ \E S \in Chunks(reader.beginKey) :
          \E vals \in [1..Cardinality(S) -> ShardValues] : RdKeyServers(S, vals)
    \/ RdFail2
    \/ RdOnError2

\* krmGetRanges returns its ranges
ChunkRead ==
    /\ reader.pc = "keyServers"
    /\ reader'.pc \in {"checkLock", "done", "failed"}

\* the scan with transactions that succeed in the end: each wait of the scan
\* that is reached again and again returns a value at some time (for
\* krmGetRanges, which is enabled whenever it is awaited, strong fairness is
\* written out over the steps that return its ranges), and tr.onError returns
SpecScan ==
    /\ InitReader
    /\ [][NextScan]_vars
    /\ SF_vars(RdCheckLock)
    /\ SF_vars(RdServerTags)
    /\ ([]<>(reader.pc = "keyServers") => []<><<ChunkRead>>_vars)
    /\ WF_vars(RdOnError2)

InitWiggler ==
    /\ ddEnabled = TRUE
    /\ localLogs = TLogs
    /\ writeRecoveryKey = FALSE
    /\ snapPc = [i \in Snaps |-> "none"]
    /\ snapReply = [i \in Snaps |-> <<>>]
    /\ core = [i \in Snaps |-> CoreInit]
    /\ ddModeKey = "absent"
    /\ lockOwner = "self"
    /\ ddIsTenantAware = FALSE
    /\ sup = SupInit
    /\ reader = RdIdle
    /\ wiggler = WigglerInit
    /\ waiter = WtIdle
    /\ role = RoleIdle
    /\ replicas = CfgIdle

NextWiggler ==
    \/ \E serverId \in ServerIds, metadata \in StorageMetadata : AddServer(serverId, metadata)
    \/ \E serverId \in ServerIds : RemoveServer(serverId)
    \/ \E serverId \in ServerIds, metadata \in StorageMetadata : UpdateMetadata(serverId, metadata)
    \/ GetNextServerId

\* a storage wiggler and its callers
SpecWiggler == InitWiggler /\ [][NextWiggler]_vars

InitWaiter ==
    /\ ddEnabled = TRUE
    /\ localLogs = TLogs
    /\ writeRecoveryKey = FALSE
    /\ snapPc = [i \in Snaps |-> "none"]
    /\ snapReply = [i \in Snaps |-> <<>>]
    /\ core = [i \in Snaps |-> CoreInit]
    /\ ddModeKey = "absent"
    /\ lockOwner = "self"
    /\ ddIsTenantAware = FALSE
    /\ sup = SupInit
    /\ reader = RdIdle
    /\ wiggler = WigglerInit
    /\ \E futures \in FutureLists, faultTolerance \in 0..(MaxFutures - 1),
          e \in {"operation_failed", "snap_coord_failed"},
          waitMultiplier \in 0..MaxMultiplier, now \in 0..1 :
          /\ faultTolerance < Len(futures)
          /\ waiter = WtStart(futures, faultTolerance, e, waitMultiplier, now)
    /\ role = RoleIdle
    /\ replicas = CfgIdle

NextWaiter ==
    \/ \E i \in 1..MaxFutures : WtFutureReady(i)
    \/ WtDelayFires
    \/ WtTick

\* one call of waitForMost and the clock
SpecWait == InitWaiter /\ [][NextWaiter]_vars

InitRole ==
    /\ ddEnabled = TRUE
    /\ localLogs = TLogs
    /\ writeRecoveryKey = FALSE
    /\ snapPc = [i \in Snaps |-> "none"]
    /\ snapReply = [i \in Snaps |-> <<>>]
    /\ core = [i \in Snaps |-> CoreInit]
    /\ ddModeKey \in ModeValues
    /\ lockOwner = "other"
    /\ ddIsTenantAware = FALSE
    /\ sup = SupInit
    /\ reader = RdIdle
    /\ wiggler = WigglerInit
    /\ waiter = WtIdle
    /\ role = RoleStart
    /\ replicas = CfgIdle

NextRole ==
    \/ SupTakeLock
    \/ SupGetConfiguration(1)
    \/ SupReplicaKeys
    \/ SupInitDD
    \/ SupInitDDScan(1, 0, FALSE, [k \in 1..MaxMoves |-> "none"])
    \/ SupWaitEnabled
    \/ SupSeedShardYield(FALSE, [k \in 1..MaxMoves |-> "none"])
    \/ \E e \in RoleErrors : SupFail(e)
    \/ SupClearAsync
    \/ SupCheckEnabled
    \/ SupCheckEnabled2
    \/ \E e \in RoleErrors : SupFailInCatch(e)
    \/ \E mode \in ModeValues : SetDDMode(mode)
    \/ RoleHalt
    \/ RoleDistributorError
    \/ EcArrive
    \/ \E teams \in TeamSets, exclusions \in ExclusionSets : EcReply(teams, exclusions)

\* the dataDistributor role: its supervisor, halt requests and exclusion
\* safety checks
SpecRole == InitRole /\ [][NextRole]_vars

InitPoll ==
    /\ ddEnabled = TRUE
    /\ localLogs = TLogs
    /\ writeRecoveryKey = FALSE
    /\ snapPc = [i \in Snaps |-> "none"]
    /\ snapReply = [i \in Snaps |-> <<>>]
    /\ core = [i \in Snaps |-> CoreInit]
    /\ ddModeKey \in ModeValues
    /\ lockOwner = "other"
    /\ ddIsTenantAware = FALSE
    /\ sup = SupInit
    /\ reader = RdIdle
    /\ wiggler = WigglerInit
    /\ waiter = WtIdle
    /\ role = RoleIdle
    /\ replicas = CfgIdle

NextPoll ==
    \/ SupTakeLock
    \/ \E regions \in 1..2 : SupGetConfiguration(regions)
    \/ SupReplicaKeys
    \/ SupInitDD
    \/ SupInitDDScan(1, 0, FALSE, [k \in 1..MaxMoves |-> "none"])
    \/ SupWaitEnabled
    \/ SupSeedShardYield(FALSE, [k \in 1..MaxMoves |-> "none"])
    \/ \E e \in Errors : SupFail(e)
    \/ SupClearAsync
    \/ SupCheckEnabled
    \/ SupCheckEnabled2
    \/ \E mode \in ModeValues : SetDDMode(mode)
    \/ \E owner \in Owners : SetLockOwner(owner)
    \/ PollDelay
    \/ PollCheck
    \/ PollReadFails
    \/ PollOnError
    \/ PollThrows

\* the supervisor with the poller of the move-keys lock.  The timer of the
\* poller fires, its transaction gets its answers, and a read that fails with a
\* retryable error does not fail forever; nothing is assumed of the other
\* actors and of the environment.
SpecPoll ==
    /\ InitPoll /\ [][NextPoll]_vars
    /\ WF_vars(PollDelay) /\ SF_vars(PollCheck) /\ WF_vars(PollOnError) /\ WF_vars(PollThrows)

InitReplicas ==
    /\ ddEnabled = TRUE
    /\ localLogs = TLogs
    /\ writeRecoveryKey = FALSE
    /\ snapPc = [i \in Snaps |-> "none"]
    /\ snapReply = [i \in Snaps |-> <<>>]
    /\ core = [i \in Snaps |-> CoreInit]
    /\ ddModeKey = "absent"
    /\ lockOwner = "self"
    /\ ddIsTenantAware = FALSE
    /\ sup = SupInit
    /\ reader = RdIdle
    /\ wiggler = WigglerInit
    /\ waiter = WtIdle
    /\ role = RoleIdle
    /\ replicas \in {CfgStart(keys) : keys \in ReplicaKeys}

NextReplicas ==
    \/ \E configuration \in DatabaseConfigurations : CfgGetConfiguration(configuration)
    \/ CfgCommit
    \/ CfgCommitUnknownResult

\* the configure step of the supervisor on the keys of datacenterReplicasKeys
SpecReplicas == InitReplicas /\ [][NextReplicas]_vars

InitSup ==
    /\ ddEnabled = TRUE
    /\ localLogs = TLogs
    /\ writeRecoveryKey = FALSE
    /\ snapPc = [i \in Snaps |-> "none"]
    /\ snapReply = [i \in Snaps |-> <<>>]
    /\ core = [i \in Snaps |-> CoreInit]
    /\ ddModeKey \in ModeValues
    /\ lockOwner \in Owners \ {"self"}
    /\ ddIsTenantAware \in BOOLEAN
    /\ sup = SupInit
    /\ reader = RdIdle
    /\ wiggler = WigglerInit
    /\ waiter = WtIdle
    /\ role = RoleIdle
    /\ replicas = CfgIdle

\* the supervisor, and the ddSnapCreate actors as far as they move the flag
NextSup ==
    \/ SupTakeLock
    \/ \E regions \in 1..2 : SupGetConfiguration(regions)
    \/ SupReplicaKeys
    \/ SupInitDD
    \/ \E shards \in 1..MaxShards, moves \in 0..MaxMoves, f \in BOOLEAN, k \in MoveLists :
          SupInitDDScan(shards, moves, f, k)
    \/ SupWaitEnabled
    \/ \E f \in BOOLEAN, k \in MoveLists : SupTenantCache(f, k)
    \/ \E f \in BOOLEAN, k \in MoveLists : SupSeedShardYield(f, k)
    \/ \E k \in MoveLists : SupSeedMoveYield(k)
    \/ RemoveFailedServer
    \/ \E e \in Errors : SupFail(e)
    \/ SupClearAsync
    \/ SupRemoveKeys
    \/ SupRemoveServer
    \/ SupCheckEnabled
    \/ SupCheckEnabled2
    \/ \E e \in Errors : SupFailInCatch(e)
    \/ \E mode \in ModeValues : SetDDMode(mode)
    \/ \E owner \in Owners : SetLockOwner(owner)
    \/ \E i \in Snaps : SnapArrive(i)
    \/ \E i \in Snaps : SnapTimeout(i)

\* the snapshot requests of a data distributor whose supervisor is not looked at
Init ==
    /\ ddEnabled = TRUE
    /\ localLogs \in LogSets
    /\ writeRecoveryKey = FALSE
    /\ snapPc = [i \in Snaps |-> "none"]
    /\ snapReply = [i \in Snaps |-> <<>>]
    /\ core = [i \in Snaps |-> CoreInit]
    /\ ddModeKey = "absent" /\ lockOwner = "other" /\ ddIsTenantAware = FALSE /\ sup = SupInit
    /\ reader = RdIdle
    /\ wiggler = WigglerInit
    /\ waiter = WtIdle
    /\ role = RoleIdle
    /\ replicas = CfgIdle

Spec == Init /\ [][NextSnap]_vars

\* the supervisor of a data distributor
SpecSup == InitSup /\ [][NextSup]_vars

(* ------------------- properties of ddSnapCreateCore -------------------- *)
\* the phases of the try block, in the order of the protocol
PhaseOrder == <<"disablePop", "snapStorage", "snapTLog", "enablePop", "snapCoord">>

IsPrefix(a, b) == Len(a) <= Len(b) /\ \A k \in 1..Len(a) : a[k] = b[k]

\* the batches the try block of c sent (those of the catch block left out)
TryLog(c) == SelectSeq(c.log, LAMBDA m : m.kind # "enablePopCatch")

\* the batches the catch block of c sent
CatchLog(c) == SelectSeq(c.log, LAMBDA m : m.kind = "enablePopCatch")

\* every tlog the actor captured has answered its request of phase kind
AckedByAll(c, kind) == \A t \in c.tlogs : <<kind, t>> \in c.acked

\* C1: ddSnapCreateCore sends its batches in the order disable pop, storage
\* snapshot, tlog snapshot, enable pop, coordinator snapshot; it sends a batch
\* only when the step before it has completed successfully (no future of its
\* waitForAll outstanding, the quorum of its waitForMost reached, every tlog
\* acknowledged); in particular no storage or tlog snapshot request is sent
\* unless every local tlog has acknowledged the disable-pop request.
C1_PhaseOrder ==
    \A i \in Snaps :
        LET c == core[i]
            l == TryLog(c)
        IN /\ IsPrefix([k \in 1..Len(l) |-> l[k].kind], PhaseOrder)
           /\ \A k \in 1..Len(l) : l[k].ready /\ l[k].quorum
           /\ Len(l) >= 1 => l[1].to = c.tlogs /\ c.tlogs # {}
           /\ Len(l) >= 2 => AckedByAll(c, "disablePop")
           /\ Len(l) >= 3 => l[3].to = c.tlogs
           /\ Len(l) >= 4 => AckedByAll(c, "snapTLog") /\ l[4].to = c.tlogs
           /\ Len(l) >= 5 => AckedByAll(c, "enablePop")

\* an orchestrator that went through the five phases and returned
C1_Witness ==
    \E i \in Snaps :
        /\ core[i].pc = "done"
        /\ [k \in 1..Len(core[i].log) |-> core[i].log[k].kind] = PhaseOrder
        /\ Cardinality(core[i].tlogs) = NumTLogs

\* the number of enable-pop requests c sent to tlog t
EnableCount(c, t) ==
    Cardinality({k \in 1..Len(c.log) :
                    c.log[k].kind \in {"enablePop", "enablePopCatch"} /\ t \in c.log[k].to})

\* the disable-pop step of c succeeded
DisableSucceeded(c) == c.tlogs # {} /\ AckedByAll(c, "disablePop")

\* the orchestrator ended with an error after its disable-pop step succeeded
FailedAfterDisable(c) == c.pc = "failed" /\ DisableSucceeded(c)

EarlySteps == {"disablePop", "getStorage", "snapStorage", "snapTLog"}

\* the error with which a step of the try block fails
StepError(pc) ==
    CASE pc = "disablePop" -> "snap_disable_tlog_pop_failed"
      [] pc \in {"getStorage", "snapStorage"} -> "snap_storage_failed"
      [] pc = "snapTLog" -> "snap_tlog_failed"
      [] pc = "enablePop" -> "snap_enable_tlog_pop_failed"
      [] pc = "getCoord" -> "operation_failed"
      [] pc = "snapCoord" -> "snap_coord_failed"
      [] OTHER -> "none"

\* the catch block of c sent one batch of enable-pop requests, to every tlog
\* local in the ServerDBInfo it read
ReEnableSent(c) ==
    /\ Len(CatchLog(c)) = 1
    /\ CatchLog(c)[1].to = c.catchLogs
    /\ c.catchLogs # {}

Running == {i \in Snaps : snapPc[i] = "running"}

\* the ddSnapCreateCore actors that run
Orchestrating == {i \in Snaps : core[i].pc \notin CoreFinal \cup {"notStarted"}}

\* a step taken while a ddSnapCreate holds the flag at false starts no other
\* ddSnapCreate and no orchestrator; the request it refuses is answered with
\* operation_failed, has no orchestrator, and the flag stays false
RefusedWhileRunning ==
    Running # {} =>
        /\ Running' \subseteq Running
        /\ Orchestrating' \subseteq Orchestrating
        /\ \A i \in Snaps :
              snapPc'[i] = "refused" /\ (snapPc[i] # "refused" \/ snapReply'[i] # snapReply[i]) =>
                  /\ snapReply'[i] = <<"operation_failed">>
                  /\ core'[i] = CoreInit
                  /\ ddEnabled' = ddEnabled /\ ~ddEnabled

\* C4: while one ddSnapCreate has flipped the in-memory flag to false, every
\* other ddSnapCreate that arrives is refused with operation_failed, runs no
\* orchestrator and leaves the flag as it is; at most one ddSnapCreate holds
\* the flag, and at most one orchestrator runs, at any time.
C4_OneSnapshotAtATime ==
    [][/\ RefusedWhileRunning
       /\ Cardinality(Running') <= 1
       /\ Orchestrating' \subseteq Running'
       /\ \A i \in Snaps : snapPc'[i] = "refused" =>
              snapReply'[i] = <<"operation_failed">> /\ core'[i] = CoreInit]_vars

\* a request refused while the orchestrator of another one runs
C4_Witness ==
    \E i, j \in Snaps :
        /\ snapPc[i] = "running" /\ core[i].pc = "snapStorage"
        /\ snapPc[j] = "refused" /\ snapReply[j] = <<"operation_failed">>
        /\ ~ddEnabled

\* what ddSnapCreate i has sent on the reply of its request when it ends
ExitReplies(i) ==
    CASE snapPc'[i] = "cancelled" -> {<<>>}
      [] core'[i].pc = "done" /\ core[i].pc = "clearFlag" -> {<<"Void">>}
      [] OTHER -> {<<"timed_out">>, <<"snap_with_recovery_unsupported">>, <<core'[i].err>>}

\* C5: a ddSnapCreate that has set the in-memory flag to false holds it at
\* false while it runs, and the flag is true again in the state in which it
\* finishes, on every exit path: orchestrator success (reply Void),
\* orchestrator error (the error is the reply), ServerDBInfo change, timeout,
\* and cancellation (no reply: the cancellation is re-thrown).
C5_FlagRestored ==
    [][\A i \in Snaps :
          /\ snapPc'[i] = "running" => ~ddEnabled'
          /\ snapPc[i] = "running" /\ snapPc'[i] # "running" =>
                /\ ddEnabled'
                /\ snapPc'[i] \in {"done", "cancelled"}
                /\ snapReply'[i] \in ExitReplies(i)]_vars

\* a cancelled ddSnapCreate: the flag is true, no reply was sent, and its
\* orchestrator ended with the cancellation
C5_Witness ==
    \E i \in Snaps :
        /\ snapPc[i] = "cancelled" /\ ddEnabled /\ snapReply[i] = <<>>
        /\ core[i].pc = "failed" /\ core[i].err = "operation_cancelled"
        /\ core[i].failedAt = "snapTLog"

(* -------------------- properties of dataDistribution ------------------- *)
\* the steps of one iteration of the outer loop, in the order of the code
SupOrder == <<"lock", "config", "initDD", "gate", "seed", "spawn", "await">>

\* the number of steps of the iteration done when the actor waits at pc
StepsAt(pc) ==
    CASE pc = "lock" -> {0}
      [] pc = "config" -> {1}
      [] pc = "replicaKeys" -> {2}
      [] pc \in {"initDD", "initDDScan"} -> {3}
      [] pc \in {"waitEnabled", "tenantCache"} -> {4}
      [] pc \in {"seedShards", "seedMoves"} -> {5}
      [] pc = "run" -> {7}
      [] OTHER -> 0..7

\* a relocation was sent, or an actor of the pipeline or a team collection exists
PipelineTouched ==
    \/ sup.output # <<>> \/ sup.actors
    \/ sup.teamCollection \/ sup.primaryTeamCollection \/ sup.remoteTeamCollection
    \/ sup.pc \in {"seedShards", "seedMoves", "run"}

\* C6: in every iteration of the outer loop the steps occur in the order take
\* lock, read configuration, read initial distribution, DD-enabled gate, seed,
\* spawn, await; no relocation is sent and no actor of the pipeline or team
\* collection exists before getInitialDataDistribution has returned the full
\* snapshot (shards included) and the gate has been passed; the relocations
\* are sent before the actors are created.
C6_IterationOrder ==
    /\ IsPrefix(sup.stepLog, SupOrder)
    /\ sup.pc \in TryPcs => Len(sup.stepLog) \in StepsAt(sup.pc)
    /\ PipelineTouched =>
          /\ sup.initData.ready /\ sup.initData.shards >= 1
          /\ Len(sup.stepLog) >= 5
    /\ sup.actors \/ sup.teamCollection \/ sup.primaryTeamCollection => Len(sup.stepLog) = 7
    /\ sup.pc \in {"seedShards", "seedMoves"} => sup.shard <= sup.initData.shards

\* a running pipeline that was seeded with relocations of a shard and of a move
C6_Witness ==
    /\ sup.pc = "run" /\ sup.stepLog = SupOrder
    /\ sup.output = <<"recoverShard", "recoverMove">>
    /\ sup.initData.ready /\ sup.actors

\* the gate of this iteration found the mode of the snapshot non-zero and the
\* in-memory flag true
GatePassed == sup.gate.evaluated /\ sup.gate.mode # 0 /\ sup.gate.flag

\* the gate of this iteration found the mode 0 or the in-memory flag false
GateClosed == sup.gate.evaluated /\ (sup.gate.mode = 0 \/ ~sup.gate.flag)

AllowSet == normalDDQueueErrors \cup {"actor_cancelled"}

\* no team collection is left
NoTeamCollections ==
    ~sup.teamCollection /\ ~sup.primaryTeamCollection /\ ~sup.remoteTeamCollection

\* the catch block handles an error of the running pipeline
RunFailed == sup.pc \in CatchPcs /\ sup.errAt = "run"

\* this step ends the actor by the re-throw of the error the catch block holds
Rethrown == sup.pc \in CatchPcs /\ sup'.pc = "dead" /\ sup'.exitBy = "rethrow"

\* this step takes the catch block back to the lock
Restarted == sup.pc \in CatchPcs /\ sup'.pc = "lock"

C9_OtherErrorsNeverRestart ==
    [][RunFailed /\ sup.err \notin AllowSet => sup'.pc # "lock"]_vars

\* C9, amended: after an error of the run phase that is outside the allow-set
\* the supervisor returns to the lock only if the removeFailedServer promise
\* has been fulfilled (after removeKeysFromFailedServer and
\* removeStorageServer); when the promise has not been fulfilled it
\* terminates with that error as soon as the shard map is cleared.
C9_OtherErrorsFatalWithoutPromise ==
    [][RunFailed /\ sup.err \notin AllowSet =>
          /\ Restarted => sup.removeFailedServer /\ sup.pc = "removeServer"
          /\ Rethrown => ~sup.removeFailedServer /\ sup'.exitErr = sup.err
          /\ ~sup.removeFailedServer /\ sup'.pc # sup.pc =>
                sup.pc = "clearAsync" /\ sup'.pc = "dead"
          /\ sup.pc \notin {"checkEnabled", "checkEnabled2"}]_vars

\* the supervisor ended by an error outside the allow-set raised in the run phase
C9_Witness ==
    /\ sup.pc = "dead" /\ sup.exitBy = "rethrow" /\ sup.errAt = "run"
    /\ sup.exitErr = "internal_error" /\ ~sup.removeFailedServer

\* C10 as stated: a supervisor that failed with movekeys_conflict restarts the
\* outer loop only if isDataDistributionEnabled reported DD disabled.
C10_RestartOnlyIfDisabled ==
    [][sup.pc \in CatchPcs /\ sup.err = "movekeys_conflict" /\ sup'.pc = "lock" =>
          sup'.report = "disabled"]_vars

\* the catch block waits for isDataDistributionEnabled
Checking == sup.pc \in {"checkEnabled", "checkEnabled2"}

\* C10, amended: a supervisor that failed with movekeys_conflict while the
\* removeFailedServer promise is not fulfilled asks isDataDistributionEnabled;
\* it restarts the outer loop if and only if the answer is disabled, and
\* terminates with movekeys_conflict if the answer is enabled; the answer is
\* disabled whenever the in-memory flag is false when it is given.  With the
\* promise fulfilled it restarts without asking.
C10_ConflictRestartsIffDisabled ==
    [][/\ Checking => sup.err = "movekeys_conflict" /\ ~sup.removeFailedServer
       /\ sup.pc \in CatchPcs /\ sup.err = "movekeys_conflict" /\ ~sup.removeFailedServer =>
             /\ sup'.pc = "lock" <=> Checking /\ sup'.report = "disabled"
             /\ Rethrown <=> Checking /\ sup'.report = "enabled"
             /\ Rethrown => sup'.exitErr = "movekeys_conflict" /\ ddEnabled
             /\ Checking /\ ~ddEnabled => sup'.report # "enabled"
             /\ sup.pc = "checkEnabled2" /\ ~ddEnabled /\ sup'.pc # sup.pc /\ sup'.exitBy # "catch"
                   => sup'.pc = "lock"
       /\ sup.pc \in CatchPcs /\ sup.err = "movekeys_conflict" /\ sup.removeFailedServer =>
             /\ ~Rethrown /\ sup'.report = "none"
             /\ sup'.pc = "lock" => sup.pc = "removeServer"]_vars

\* isDataDistributionEnabled reported DD disabled, because the flag was false
\* or the lock is owned by dataDistributionModeLock, and the loop restarted
C10_Witness ==
    /\ sup.pc = "lock" /\ sup.report = "disabled" /\ sup.stepLog = <<>>
    /\ sup.trackerCancelled = FALSE

\* ---- the removal of a failed server in the catch block ----

TeardownOrder == <<"pickTeams", "dropTeamCollections", "clearShards", "removeKeys", "removeServer">>

\* the regions of the configuration read in this iteration
ConfiguredRegions == IF sup.usableRegions > 1 THEN {"primary", "remote"} ELSE {"primary"}

\* the steps of the catch block made when the actor waits at pc
TornAt(pc) ==
    SubSeq(TeardownOrder, 1,
           CASE pc = "clearAsync" -> 2 [] pc = "removeKeys" -> 3 [] pc = "removeServer" -> 4
             [] OTHER -> 0)

\* C11: when the catch block is entered by an error other than a cancellation
\* and the removeFailedServer promise is fulfilled, it picks a team of every
\* configured region from the team collections while they still exist, drops
\* the team collections, clears the shards, removes the keys of the failed
\* server onto the picked teams, removes the storage server, in this order,
\* and then starts the next iteration at the lock; it never re-throws the
\* error, and only an error raised by one of its own waits ends the actor.
C11_RemoveFailedServerOrder ==
    /\ (sup.pc \in CatchPcs /\ sup.removeFailedServer) =>
          /\ sup.pc \in {"clearAsync", "removeKeys", "removeServer"}
          /\ sup.teardown = TornAt(sup.pc)
          /\ sup.teamForDroppedRange = ConfiguredRegions
          /\ NoTeamCollections
    /\ (sup.pc = "lock" /\ sup.teardown # <<>> /\ Head(sup.teardown) = "pickTeams") =>
          sup.teardown = TeardownOrder
    /\ (sup.pc = "dead" /\ sup.removeFailedServer /\ sup.err # "actor_cancelled") =>
          /\ sup.exitBy = "catch"
          /\ sup.teardown \in {TornAt("clearAsync"), TornAt("removeKeys"), TornAt("removeServer")}
          /\ sup.teamForDroppedRange = ConfiguredRegions

\* the failed server was removed with two regions configured, and the outer
\* loop is back at the lock
C11_Witness ==
    /\ sup.pc = "lock"
    /\ sup.teardown = TeardownOrder
    /\ sup.usableRegions = 2

(* ---------------- properties of getInitialDataDistribution -------------- *)
\* getInitialDataDistribution has returned its snapshot
Returned == reader.pc = "done"

\* the keys of a list of shards
ShardKeys(shards) == {shards[i].key : i \in 1..Len(shards)}

\* a list of shards that starts at allKeys.begin, is strictly increasing by
\* key and ends with the sentinel at allKeys.end
WellFormedShards(shards) ==
    /\ Len(shards) >= 2
    /\ shards[1].key = 0
    /\ shards[Len(shards)] = SentinelShard
    /\ \A i \in 1..(Len(shards) - 1) : shards[i].key < shards[i + 1].key

RealShards == 1..(Len(reader.result.shards) - 1)

\* the move dataMoveMap holds at the first key of shard i
MoveOf(i) ==
    LET k == MoveAt(reader.result.dataMoveMap, reader.result.shards[i].key)
    IN IF k = 0 THEN NoDataMove ELSE reader.result.dataMoveMap[k]

\* the range of shard i lies in the range of move
Contains(move, i) ==
    /\ move.begin <= reader.result.shards[i].key
    /\ reader.result.shards[i + 1].key <= move.end

\* shard i is covered by a valid move of its destId that includes its
\* destination teams
Covered(i) ==
    LET s == reader.result.shards[i]
        m == MoveOf(i)
    IN /\ m.valid /\ m.id = s.destId /\ Contains(m, i)
       /\ s.primaryDest \subseteq m.primaryDest
       /\ s.remoteDest \subseteq m.remoteDest

\* the error events of the validation of shard i
EventsOf(i) == SelectSeq(reader.events, LAMBDA e : e.shard = i)

\* the snapshot was returned after the validation of its shards
Validated ==
    /\ reader.pc \in {"done", "seeded"}
    /\ reader.early = "none"
    /\ reader.SHARD_ENCODE_LOCATION_METADATA

\* C14 as stated: every shard with hasDest of a validated snapshot has an
\* anonymous destId, or is covered by a valid move of its destId that
\* includes its destination teams, or else the move at its key is cancelled.
C14_DestCoveredOrCancelled ==
    Validated =>
        \A i \in RealShards :
            reader.result.shards[i].hasDest =>
                \/ reader.result.shards[i].destId = anonymousShardId
                \/ Covered(i)
                \/ MoveOf(i).cancelled

\* C14, amended: every shard with hasDest of a validated snapshot has an
\* anonymous destId, or is covered by a valid move of its destId that
\* includes its destination teams, or the valid move at its key is marked
\* cancelled, or no valid move holds its key: then nothing is cancelled and
\* the validation only emits the event DataMoveMissing for the shard.
C14_DestCoveredCancelledOrMissing ==
    Validated =>
        \A i \in RealShards :
            reader.result.shards[i].hasDest =>
                \/ reader.result.shards[i].destId = anonymousShardId
                \/ Covered(i)
                \/ MoveOf(i).valid /\ MoveOf(i).cancelled
                \/ /\ MoveOf(i) = NoDataMove
                   /\ EventsOf(i) = <<[reason |-> "DataMoveMissing", shard |-> i]>>

\* a validated snapshot with a shard covered by its move and a shard whose
\* move is missing
C14_Witness ==
    /\ Validated
    /\ \E i \in RealShards :
          /\ reader.result.shards[i].hasDest /\ Covered(i)
          /\ ~MoveOf(i).cancelled
    /\ \E i \in RealShards :
          /\ reader.result.shards[i].hasDest
          /\ reader.result.shards[i].destId # anonymousShardId
          /\ ~MoveOf(i).valid

\* shard i has a destination whose id is not the id of the valid move at its key
IdMismatch(i) ==
    /\ reader.result.shards[i].hasDest
    /\ MoveOf(i).valid
    /\ reader.result.shards[i].destId # MoveOf(i).id

\* C15: for a shard with a destId other than the id of the valid move that
\* covers it, the validation emits one error event, with the reason
\* DataMoveIDMissMatch, and marks the move cancelled; the supervisor then sends
\* for the range of the move one relocation, marked cancelled and carrying the
\* id of the move, and no relocation that restores the move.
C15_IdMismatchCancelsMove ==
    (Validated /\ reader.pc = "seeded") =>
        \A i \in RealShards :
            IdMismatch(i) =>
                /\ Contains(MoveOf(i), i)
                /\ EventsOf(i) = <<[reason |-> "DataMoveIDMissMatch", shard |-> i]>>
                /\ MoveOf(i).cancelled
                /\ SelectSeq(reader.output, LAMBDA rs : rs.dataMoveId = MoveOf(i).id) =
                       <<[cancelled |-> TRUE, dataMoveId |-> MoveOf(i).id,
                          begin |-> MoveOf(i).begin, end |-> MoveOf(i).end,
                          restore |-> FALSE]>>

\* the supervisor has seeded a snapshot in which a shard names the move "m2"
\* and is covered by the move "m1", which was not being deleted
C15_Witness ==
    /\ Validated /\ reader.pc = "seeded"
    /\ \E i \in RealShards :
          /\ IdMismatch(i)
          /\ reader.result.shards[i].destId = "m2"
          /\ ~reader.read.rows[1].deleting

\* the reason of the error event validateShard owes to shard i of a returned
\* snapshot, "none" when the shard agrees with the move at its key
Violation(i) ==
    LET s == reader.result.shards[i]
        m == MoveOf(i)
    IN IF ~m.valid
       THEN (IF s.hasDest /\ s.destId # anonymousShardId THEN "DataMoveMissing" ELSE "none")
       ELSE IF ~s.hasDest THEN "ShardMissingDest"
       ELSE IF s.destId # m.id THEN "DataMoveIDMissMatch"
       ELSE IF ~(s.primaryDest \subseteq m.primaryDest /\ s.remoteDest \subseteq m.remoteDest)
       THEN "DataMoveDestMissMatch"
       ELSE "none"

C17_NoPartialState ==
    (Returned /\ reader.early = "none") =>
        /\ reader.result.allServers = reader.read.servers \o reader.read.tss
        /\ Len(reader.result.dataMoveMap) = Len(reader.read.rows)
        /\ \A k \in 1..Len(reader.read.rows) :
              reader.result.dataMoveMap[k].id = reader.read.rows[k].id

(* ------------------------ StorageWiggler: order ------------------------ *)
PoppedIds == {wiggler.popped[i].second : i \in 1..Len(wiggler.popped)}

\* a is handed out no later than b by the wiggle policy: flagged servers
\* first, older servers first within a class
PolicyOrder(a, b) ==
    /\ b.first.flag => a.first.flag
    /\ a.first.flag = b.first.flag => a.first.createdTime <= b.first.createdTime

\* C18: the servers popped since the last addServer or updateMetadata came
\* out flagged ones first and by ascending createdTime within a class, the
\* servers still queued come after them, no server came out twice, the handle
\* index names exactly the queued servers, and getNextServerId returns absent
\* only when every server has been handed out.
C18_PopOrderAndExactlyOnce ==
    /\ \A i, j \in 1..Len(wiggler.popped) :
          i < j => /\ PolicyOrder(wiggler.popped[i], wiggler.popped[j])
                   /\ wiggler.popped[i].second # wiggler.popped[j].second
    /\ \A i \in 1..Len(wiggler.popped) : \A e \in wiggler.wiggle_pq :
          PolicyOrder(wiggler.popped[i], e)
    /\ wiggler.pq_handles = {e.second : e \in wiggler.wiggle_pq}
    /\ PoppedIds \cap wiggler.pq_handles = {}
    /\ wiggler.ret = 0 => wiggler.wiggle_pq = {}
    /\ wiggler.ret \in ServerIds =>
          /\ wiggler.popped # <<>>
          /\ wiggler.popped[Len(wiggler.popped)].second = wiggler.ret

\* every server was added with both classes present, all were popped and the
\* next call returned absent
C18_Witness ==
    /\ wiggler.ret = 0
    /\ wiggler.removed = 0
    /\ PoppedIds = ServerIds
    /\ wiggler.popped[1].first.flag
    /\ ~wiggler.popped[NumServers].first.flag
    /\ \E i \in 1..(NumServers - 1) :
          /\ wiggler.popped[i].first.flag = wiggler.popped[i + 1].first.flag
          /\ wiggler.popped[i].first.createdTime < wiggler.popped[i + 1].first.createdTime
          /\ wiggler.popped[i].second > wiggler.popped[i + 1].second

\* C19: with no addServer or updateMetadata in between (removeServer may run),
\* the pairs popped by getNextServerId come out in the total order of the
\* comparator, metadata first and server id as tie-break, and every pair that
\* is still queued comes after all of them.
C19_PopsFollowComparator ==
    /\ \A i, j \in 1..Len(wiggler.popped) :
          i < j => PoppedBefore(wiggler.popped[i], wiggler.popped[j])
    /\ \A i \in 1..Len(wiggler.popped) : \A e \in wiggler.wiggle_pq :
          PoppedBefore(wiggler.popped[i], e)
    /\ \A e, f \in wiggler.wiggle_pq : e # f => PoppedBefore(e, f) # PoppedBefore(f, e)

\* two servers of equal metadata were popped in the order of their ids and a
\* third server was removed with removeServer
C19_Witness ==
    /\ Len(wiggler.popped) >= 2
    /\ wiggler.ret = wiggler.popped[Len(wiggler.popped)].second
    /\ wiggler.popped[1].first = wiggler.popped[2].first
    /\ wiggler.popped[1].second < wiggler.popped[2].second
    /\ wiggler.removed \in ServerIds \ PoppedIds

(* --------------------- StorageWiggler: removeServer -------------------- *)
\* what the wiggler holds: the queue, the handle index and the notifier
Held(w) == <<w.wiggle_pq, w.pq_handles, w.nonEmpty>>

\* C20: removeServer applied twice for an id leaves what removeServer applied
\* once leaves, the wiggler that the last removeServer left is not changed by
\* repeating it, and removeServer of a server that getNextServerId popped
\* changes neither the queue nor the handle index.
C20_RemoveServerIdempotent ==
    /\ \A serverId \in ServerIds :
          Held(removeServer(removeServer(wiggler, serverId), serverId))
             = Held(removeServer(wiggler, serverId))
    /\ wiggler.ret = -1 /\ wiggler.removed \in ServerIds =>
          Held(removeServer(wiggler, wiggler.removed)) = Held(wiggler)
    /\ \A serverId \in PoppedIds :
          /\ removeServer(wiggler, serverId).wiggle_pq = wiggler.wiggle_pq
          /\ removeServer(wiggler, serverId).pq_handles = wiggler.pq_handles

\* the last call was removeServer of a server that had been popped, while
\* other servers are queued
C20_Witness ==
    /\ wiggler.ret = -1
    /\ wiggler.removed \in PoppedIds
    /\ wiggler.wiggle_pq # {}

(* ------------------------------ waitForMost ---------------------------- *)
\* the futures of the unit test: good ones after 1, 2 and 3 time units
GoodTestFutures ==
    <<[at |-> 1, present |-> TRUE], [at |-> 2, present |-> TRUE], [at |-> 3, present |-> TRUE]>>

\* the futures of the unit test with a bad one: good after 1 and 2, bad after 1
BadTestFutures ==
    <<[at |-> 1, present |-> TRUE], [at |-> 2, present |-> TRUE], [at |-> 1, present |-> FALSE]>>

AllFutures == 1..Len(waiter.futures)
Presents == {i \in waiter.ready : waiter.futures[i].present}
ErrorResults == {i \in waiter.ready : ~waiter.futures[i].present}
WtSucceeded == waiter.pc \in {"slow", "returned"}

\* C21: waitForMost gets past its quorum only when size - faultTolerance
\* futures or more hold a present result, it throws the error it was given,
\* and nothing else, exactly when more than faultTolerance futures hold an
\* error result; with faultTolerance 0 every future is ready when it returns
\* and one error result makes it throw.
C21_QuorumOrSuppliedError ==
    /\ WtSucceeded =>
          Cardinality(Presents) >= Cardinality(AllFutures) - waiter.faultTolerance
    /\ waiter.pc = "thrown" <=> Cardinality(ErrorResults) > waiter.faultTolerance
    /\ waiter.err = (IF waiter.pc = "thrown" THEN waiter.e ELSE "none")
    /\ waiter.faultTolerance = 0 /\ waiter.pc = "returned" => waiter.ready = AllFutures
    /\ waiter.faultTolerance = 0 /\ ErrorResults # {} => waiter.pc = "thrown"
    /\ waiter.futures = BadTestFutures /\ waiter.faultTolerance = 1 => waiter.pc # "thrown"

\* the unit test with a bad future and faultTolerance 0 has thrown
C21_Witness ==
    /\ waiter.futures = BadTestFutures
    /\ waiter.faultTolerance = 0
    /\ waiter.pc = "thrown"
    /\ waiter.err = "operation_failed"

\* C22: with waitMultiplier 0 waitForMost returns at the time at which the
\* quorum is reached, and no future that becomes ready later is ready then;
\* for good futures after 1, 2 and 3 time units and faultTolerance 1 it
\* returns no later than 2 units after the call, the third future not ready.
C22_NoWaitForSlowFutures ==
    waiter.waitMultiplier = 0 /\ WtSucceeded =>
       /\ waiter.now = waiter.quorumAt
       /\ \A i \in AllFutures :
             waiter.futures[i].at > waiter.quorumAt - waiter.startTime => i \notin waiter.ready
       /\ waiter.futures = GoodTestFutures /\ waiter.faultTolerance = 1 =>
             waiter.now - waiter.startTime = 2 /\ 3 \notin waiter.ready

\* the first block of the unit test has returned
C22_Witness ==
    /\ waiter.futures = GoodTestFutures
    /\ waiter.faultTolerance = 1
    /\ waiter.waitMultiplier = 0
    /\ waiter.pc = "returned"
    /\ waiter.ready = {1, 2}

\* the time at which the delay granted to slow futures ends
SlowDeadline == waiter.quorumAt + waiter.waitMultiplier * (waiter.quorumAt - waiter.startTime)

\* C23: after the quorum, reached t time units after the call, waitForMost
\* waits until every future is ready or waitMultiplier * t more units have
\* passed, whichever comes first, and returns then, pending futures or not;
\* with waitMultiplier 1, faultTolerance 1 and good futures after 1, 2 and 3
\* units it returns only when the third future is ready.
C23_WaitsForSlowFuturesUpToDelay ==
    /\ waiter.pc = "slow" => waiter.ready # AllFutures /\ waiter.now <= SlowDeadline
    /\ waiter.pc = "returned" =>
          /\ waiter.now <= SlowDeadline
          /\ waiter.ready = AllFutures \/ waiter.now = SlowDeadline
          /\ waiter.now < SlowDeadline =>
                \E i \in AllFutures : waiter.futures[i].at = waiter.now - waiter.startTime
    /\ (/\ waiter.futures = GoodTestFutures
        /\ waiter.faultTolerance = 1
        /\ waiter.waitMultiplier = 1
        /\ waiter.pc = "returned") => 3 \in waiter.ready /\ waiter.now - waiter.startTime = 3

\* the delay has ended a wait that began some time after the call, and a
\* future is still pending
C23_Witness ==
    /\ waiter.pc = "returned"
    /\ waiter.waitMultiplier = 1
    /\ waiter.quorumAt > waiter.startTime
    /\ waiter.now = SlowDeadline
    /\ waiter.ready # AllFutures

(* ------------------------- ddSnapCreate: the race ---------------------- *)
RaceErrors == {"snap_with_recovery_unsupported", "timed_out"}

\* C24: a ddSnapCreate that has left its choose has answered once: Void when
\* and only when the orchestrator returned, the orchestrator's own error when
\* it failed by itself, snap_with_recovery_unsupported or timed_out when the
\* ServerDBInfo change or the deadline won; and in every case the orchestrator
\* has ended: the one that lost the race was cancelled.
C24_RaceRepliesAndCancels ==
    \A i \in Snaps : snapPc[i] = "done" =>
       /\ Len(snapReply[i]) = 1
       /\ core[i].pc \in CoreFinal
       /\ snapReply[i][1] = "Void" <=> core[i].pc = "done"
       /\ snapReply[i][1] \notin RaceErrors \cup {"Void"} =>
             snapReply[i][1] = core[i].err /\ core[i].err # "operation_cancelled"
       /\ snapReply[i][1] \in RaceErrors =>
             /\ core[i].pc = "failed"
             /\ core[i].err = "operation_cancelled" \/ core[i].failedAt # "none"

\* the deadline won against an orchestrator that was waiting for storage
\* snapshots: the request is answered timed_out and the orchestrator is gone
C24_Witness ==
    \E i \in Snaps :
       /\ snapPc[i] = "done" /\ snapReply[i] = <<"timed_out">>
       /\ core[i].pc = "failed" /\ core[i].failedAt = "snapStorage"
       /\ core[i].err = "operation_cancelled"

(* ------------------- ddSnapCreateCore: fault tolerance ----------------- *)
\* the kinds of the batches the try block of c sent
TryKinds(c) == [k \in 1..Len(TryLog(c)) |-> TryLog(c)[k].kind]

\* C25: once a local tlog has answered the disable-pop request with an error,
\* ddSnapCreateCore is in its catch block or has failed, its error is
\* snap_disable_tlog_pop_failed, and the disable-pop batch is the only batch
\* its try block has sent: no storage, tlog or coordinator snapshot request.
C25_DisablePopFailureStopsSnapshot ==
    \A i \in Snaps : \A t \in TLogs :
       <<"disablePop", t>> \in core[i].nacked =>
          /\ core[i].pc \in {"reEnable", "failed"}
          /\ core[i].err = "snap_disable_tlog_pop_failed"
          /\ core[i].failedAt = "disablePop"
          /\ TryKinds(core[i]) = <<"disablePop">>
          /\ snapPc[i] = "done" /\ snapReply[i][1] \notin RaceErrors =>
                snapReply[i] = <<"snap_disable_tlog_pop_failed">>

\* one tlog acknowledged the disable-pop request, the other one answered with
\* an error, and the orchestrator has failed
C25_Witness ==
    \E i \in Snaps : \E t, u \in TLogs :
       /\ <<"disablePop", t>> \in core[i].nacked
       /\ <<"disablePop", u>> \in core[i].acked
       /\ core[i].pc = "failed"
       /\ snapReply[i] = <<"snap_disable_tlog_pop_failed">>

\* the failed storage workers the storage snapshot step may tolerate in all
StorageBudget(c) == Min(MAX_STORAGE_SNAPSHOT_FAULT_TOLERANCE, c.teamSize - 1)

\* C26: once the storage worker list is fetched, storage snapshot requests
\* are sent only if the failures observed with the list are within
\* min(MAX_STORAGE_SNAPSHOT_FAULT_TOLERANCE, storageTeamSize - 1), otherwise
\* the orchestrator throws snap_storage_failed without sending one; the step
\* is passed only while observed and failed requests together stay within
\* that budget, and it throws snap_storage_failed exactly when they exceed it.
C26_StorageFailureBudget ==
    \A i \in Snaps :
       LET c == core[i]
           sent == \E k \in 1..Len(c.log) : c.log[k].kind = "snapStorage"
           passed == \E k \in 1..Len(c.log) : c.log[k].kind = "snapTLog"
           total == c.observed + c.failures
       IN c.observed >= 0 =>
             /\ sent <=> c.observed <= StorageBudget(c)
             /\ ~sent => c.failedAt = "getStorage" /\ c.err = "snap_storage_failed"
             /\ c.pc = "snapStorage" \/ passed => total <= StorageBudget(c)
             /\ sent /\ total > StorageBudget(c) <=>
                   c.failedAt = "snapStorage" /\ c.err = "snap_storage_failed"

\* one failed worker was observed with the list, which used up the budget of
\* a team size of 2, and the failure of one snapshot request made the step
\* throw
C26_Witness ==
    \E i \in Snaps :
       /\ core[i].teamSize = 2 /\ core[i].observed = 1
       /\ core[i].failures = 1
       /\ core[i].failedAt = "snapStorage" /\ core[i].err = "snap_storage_failed"
       /\ core[i].pc = "failed"

\* the failed coordinator snapshots the step over c.workers coordinators
\* tolerates
CoordBudget(c) ==
    LET half == (c.workers \div 2) - 1
    IN IF half <= 0 THEN 0
       ELSE IF half < MAX_COORDINATOR_SNAPSHOT_FAULT_TOLERANCE THEN half
       ELSE MAX_COORDINATOR_SNAPSHOT_FAULT_TOLERANCE

\* C27: the coordinator snapshot step is passed with at most
\* min(max(0, c/2 - 1), MAX_COORDINATOR_SNAPSHOT_FAULT_TOLERANCE) failed
\* snapshots among its c coordinators (none for c <= 3) and throws
\* snap_coord_failed exactly when more have failed; its requests are sent only
\* when every tlog has acknowledged the enable-pop request, and after its
\* failure the catch block sends no enable-pop request.
C27_CoordinatorFailureBudget ==
    \A i \in Snaps :
       LET c == core[i]
           coordFailed == c.failedAt = "snapCoord" /\ c.err = "snap_coord_failed"
       IN /\ c.pc \in {"snapCoord", "clearFlag"} =>
                /\ c.failures <= CoordBudget(c)
                /\ c.workers <= 3 => c.failures = 0
          /\ c.failedAt = "snapCoord" => (coordFailed <=> c.failures > CoordBudget(c))
          /\ c.pc = "snapCoord" \/ c.failedAt = "snapCoord" =>
                AckedByAll(c, "enablePop") /\ c.tlogs # {}
          /\ coordFailed => CatchLog(c) = <<>> /\ c.pc = "failed"

\* four coordinators, one of which failed: the step is passed
C27_Witness ==
    \E i \in Snaps :
       /\ core[i].pc = "clearFlag"
       /\ core[i].workers = 4
       /\ core[i].failures = 1

(* ------------------ getInitialDataDistribution: regions ---------------- *)
\* primary and remote split team by the datacenter of its servers
SplitByRegion(team, primary, remote) ==
    /\ primary \cup remote = team
    /\ primary \cap remote = {}
    /\ \A id \in team : id \in remote <=> DcOf(id) \in reader.remoteDcIds
    /\ reader.remoteDcIds = {} => primary = team

\* C28: in every shard and every data move of the snapshot, the primary and
\* the remote servers partition the source team, and likewise the destination
\* team; a server is among the remote ones exactly when its datacenter is one
\* of remoteDcIds, and with no remote datacenter every server is primary.
C28_TeamsSplitByRegion ==
    /\ \A i \in 1..Len(reader.result.shards) :
          LET s == reader.result.shards[i]
          IN /\ SplitByRegion(s.src, s.primarySrc, s.remoteSrc)
             /\ SplitByRegion(s.dest, s.primaryDest, s.remoteDest)
    /\ \A k \in DOMAIN reader.result.dataMoveMap :
          LET move == reader.result.dataMoveMap[k]
          IN /\ SplitByRegion(move.src, move.primarySrc, move.remoteSrc)
             /\ SplitByRegion(move.dest, move.primaryDest, move.remoteDest)

\* a returned snapshot taken with dc2 remote: a shard whose source team is
\* all remote and whose destination has s1 as its only primary server, and a
\* data move with servers of both regions
C28_Witness ==
    /\ Returned
    /\ reader.remoteDcIds = {"dc2"}
    /\ \E i \in 1..Len(reader.result.shards) :
          /\ reader.result.shards[i].remoteSrc = {"s2"}
          /\ reader.result.shards[i].primarySrc = {}
          /\ reader.result.shards[i].primaryDest = {"s1"}
    /\ \E k \in DOMAIN reader.result.dataMoveMap :
          /\ reader.result.dataMoveMap[k].primaryDest = {"s1"}
          /\ reader.result.dataMoveMap[k].remoteDest = {"s2"}

\* the ids of the storage servers one of whose addresses is excluded
MatchingIds(exclusions) ==
    {ssi.id : ssi \in {s \in StorageServers :
                          (({s.address} \cup s.secondaryAddress) \cap exclusions) # {}}}

\* C29: ddExclusionSafetyCheck replies exactly once (never before
\* getStorageServers returned, never a second time, and once when it ran to
\* its end); the reply is safe = false whenever the supervisor had no team
\* collection (it was not in its running phase: disabled, starting or torn
\* down) or the team collection had fewer than 2 teams, and otherwise it is
\* the team collection's verdict for the ids of the servers whose primary or
\* secondary address matches an exclusion.
C29_ExclusionCheckReply ==
    /\ Len(role.reply) <= 1
    /\ (role.check = "done") <=> (Len(role.reply) = 1)
    /\ role.check = "done" =>
          LET r == role.reply[1] IN
          /\ r.teamCollection <=> (r.supPc = "run")
          /\ (~r.teamCollection \/ Cardinality(r.teams) < 2) => ~r.safe
          /\ (r.teamCollection /\ Cardinality(r.teams) >= 2) =>
                (r.safe <=> \E team \in r.teams :
                                team \cap MatchingIds(r.exclusions) = {})

\* a check that ran while the supervisor held a team collection of the two
\* teams {s1} and {s2}, with the secondary address of s1 excluded: s1 is
\* matched and the team {s2} keeps the exclusion safe
C29_Witness ==
    /\ role.check = "done"
    /\ Len(role.reply) = 1
    /\ role.reply[1].teamCollection
    /\ role.reply[1].teams = {{"s1"}, {"s2"}}
    /\ role.reply[1].exclusions = {"a3"}
    /\ role.reply[1].safe

\* C30: the role replies Void to a halt request and then returns normally; an
\* error of the supervisor outside worker_removed, broken_promise,
\* actor_cancelled, please_reboot, movekeys_conflict, data_move_cancelled and
\* data_move_dest_team_not_found propagates out of the role, and for an error
\* inside the set the role returns normally.
C30_HaltAndErrorsOfTheRole ==
    LET Normal == {"worker_removed", "broken_promise", "actor_cancelled", "please_reboot",
                   "movekeys_conflict", "data_move_cancelled",
                   "data_move_dest_team_not_found"} IN
    /\ role.haltReply # <<>> =>
          role.haltReply = <<"Void">> /\ role.pc = "returned" /\ role.exitErr = "none"
    /\ role.pc = "failed" =>
          /\ role.haltReply = <<>>
          /\ sup.pc = "dead"
          /\ role.exitErr = sup.exitErr
          /\ role.exitErr \notin Normal
    /\ (role.pc = "returned" /\ role.haltReply = <<>>) =>
          /\ sup.pc = "dead"
          /\ sup.exitErr \in Normal
          /\ role.exitErr = "none"

\* the supervisor failed with internal_error and the role threw it
C30_Witness ==
    /\ role.pc = "failed"
    /\ role.exitErr = "internal_error"
    /\ sup.pc = "dead"
    /\ role.haltReply = <<>>

\* the pipeline runs
PipelineRuns == sup.pc = "run"

\* C31: while the pipeline runs the lock poller exists and is in its delay,
\* in its check or in onError of its transaction, so it never completes
\* normally; the step that follows a polling delay is a check of the lock, and
\* a check goes back to the delay only when the lock names this distributor;
\* the poller ends only by throwing movekeys_conflict into the supervisor; and
\* if the lock stops naming this distributor while the pipeline runs, the
\* pipeline eventually fails (with movekeys_conflict when it is the poller
\* that fails it).
C31_PollerFailsSupervisorOnLostLock ==
    /\ [](PipelineRuns <=> sup.poll \in {"delay", "check", "onError", "onConflict"})
    /\ [](~PipelineRuns => sup.poll = "off")
    /\ [][(sup.poll = "delay" /\ sup'.poll \notin {"delay", "off"}) => sup'.poll = "check"]_vars
    /\ [][(sup.poll = "check" /\ sup'.poll = "delay") => lockOwner = "self"]_vars
    /\ [](sup.pollThrew # "none" =>
             /\ sup.pollThrew = "movekeys_conflict"
             /\ sup.err = "movekeys_conflict"
             /\ sup.errAt = "run"
             /\ ~PipelineRuns)
    /\ (PipelineRuns /\ lockOwner # "self") ~>
           (~PipelineRuns /\ sup.errAt = "run"
               /\ (sup.err = "movekeys_conflict" \/ sup.pollThrew = "none"))

\* the poller found the lock taken by somebody else and failed the supervisor
C31_Witness ==
    /\ sup.pollThrew = "movekeys_conflict"
    /\ sup.err = "movekeys_conflict"
    /\ sup.pc = "clearAsync"
    /\ lockOwner = "other"

\* the shards of the snapshot the supervisor seeded with (the sentinel left out)
SeededShards == 1..(Len(reader.result.shards) - 1)

\* shard i has a dest and an anonymous destId
InFlight(i) ==
    reader.result.shards[i].hasDest /\ reader.result.shards[i].destId = anonymousShardId

\* the priority C32 names for shard i
ExpectedPriority(i) ==
    LET iShard == reader.result.shards[i]
        sourceTeams == {iShard.primarySrc} \cup
                       (IF reader.remoteDcIds # {} THEN {iShard.remoteSrc} ELSE {})
    IN IF \E team \in sourceTeams : Cardinality(team) # reader.storageTeamSize
       THEN "PRIORITY_TEAM_UNHEALTHY" ELSE "PRIORITY_RECOVER_MOVE"

\* C32: after the seeding, the relocations enqueued for the shards are, in
\* shard order, one for each shard that has a dest and an anonymous destId and
\* none for any other shard; each covers its shard and has priority
\* PRIORITY_TEAM_UNHEALTHY if a source team (primary, or remote when more than
\* one region is usable) has a size different from storageTeamSize, and
\* PRIORITY_RECOVER_MOVE otherwise.
C32_SeedsInFlightShardsInOrder ==
    reader.pc = "seeded" =>
        LET sent == reader.relocations IN
        /\ \A n \in 1..Len(sent) :
              \E i \in SeededShards :
                 /\ InFlight(i)
                 /\ sent[n].begin = reader.result.shards[i].key
                 /\ sent[n].end = reader.result.shards[i + 1].key
                 /\ sent[n].priority = ExpectedPriority(i)
        /\ \A i \in SeededShards :
              InFlight(i) <=> \E n \in 1..Len(sent) : sent[n].begin = reader.result.shards[i].key
        /\ \A n1, n2 \in 1..Len(sent) : n1 < n2 => sent[n1].begin < sent[n2].begin

\* two regions, storageTeamSize 1: two in-flight shards whose primary source
\* team is full and whose remote source team is empty were enqueued as
\* unhealthy, the first shard first
C32_Witness ==
    /\ reader.pc = "seeded"
    /\ reader.remoteDcIds # {}
    /\ reader.storageTeamSize = 1
    /\ Len(reader.relocations) = 2
    /\ reader.relocations[1].begin < reader.relocations[2].begin
    /\ reader.relocations[2].priority = "PRIORITY_TEAM_UNHEALTHY"
    /\ Cardinality(reader.result.shards[2].primarySrc) = 1


\* the relocations sent for the move, and the ranges restored for it
SentFor(move) == SelectSeq(reader.output, LAMBDA rs : rs.dataMoveId = move.id)
RestoredFor(move) ==
    SelectSeq(reader.restored, LAMBDA d : d.begin = move.begin /\ d.end = move.end)

\* the destination teams of a move: the primary one, and the remote one when
\* it has servers
DestTeams(move) ==
    IF move.remoteDest = {}
    THEN {[servers |-> move.primaryDest, primary |-> TRUE]}
    ELSE {[servers |-> move.primaryDest, primary |-> TRUE],
          [servers |-> move.remoteDest, primary |-> FALSE]}

\* the move got one relocation, a cancellation that restores nothing
CancellationSent(move) ==
    /\ Len(SentFor(move)) = 1
    /\ SentFor(move)[1].cancelled /\ ~SentFor(move)[1].restore
    /\ SentFor(move)[1].begin = move.begin /\ SentFor(move)[1].end = move.end
    /\ RestoredFor(move) = <<>>

\* the move got one relocation, a recover-move with its id and record, and its
\* range was restored with its destination teams
RecoverMoveSent(move) ==
    /\ Len(SentFor(move)) = 1
    /\ ~SentFor(move)[1].cancelled /\ SentFor(move)[1].restore
    /\ SentFor(move)[1].begin = move.begin /\ SentFor(move)[1].end = move.end
    /\ Len(RestoredFor(move)) = 1
    /\ RestoredFor(move)[1].teams = DestTeams(move)

\* C33 as stated: for each persisted data move of the snapshot exactly one
\* relocation is enqueued, a cancellation if the move is cancelled or is
\* invalid and not encoded, and otherwise a recover-move after restoring the
\* range with the destination teams of the move.
C33_CancelsInvalidNotEncoded ==
    reader.pc = "seeded" =>
        \A k \in DOMAIN reader.result.dataMoveMap :
            LET move == reader.result.dataMoveMap[k] IN
            IF move.cancelled \/ (~move.valid /\ ~reader.SHARD_ENCODE_LOCATION_METADATA)
            THEN CancellationSent(move) ELSE RecoverMoveSent(move)

\* C33: for each persisted data move of the snapshot exactly one relocation
\* is enqueued: a cancellation if the move is cancelled, or is valid while
\* SHARD_ENCODE_LOCATION_METADATA is off; otherwise the shard tracker of the
\* range of the move is restarted, the shard is defined with the destination
\* teams of the move, and a recover-move with the id and the record of the
\* move is enqueued.
C33_CancelsOrRestoresEachMove ==
    reader.pc = "seeded" =>
        /\ Len(reader.output) = Len(reader.result.dataMoveMap)
        /\ \A k \in DOMAIN reader.result.dataMoveMap :
              LET move == reader.result.dataMoveMap[k] IN
              /\ move.valid
              /\ IF move.cancelled \/ (move.valid /\ ~reader.SHARD_ENCODE_LOCATION_METADATA)
                 THEN CancellationSent(move) ELSE RecoverMoveSent(move)

\* a move that is not cancelled, seeded with SHARD_ENCODE_LOCATION_METADATA
\* off: a cancellation was enqueued for it
C33_Witness ==
    /\ reader.pc = "seeded"
    /\ ~reader.SHARD_ENCODE_LOCATION_METADATA
    /\ Len(reader.result.dataMoveMap) = 1
    /\ ~reader.result.dataMoveMap[1].cancelled
    /\ CancellationSent(reader.result.dataMoveMap[1])

\* the datacenters whose key the configuration of the step lets stay: the
\* primary one, and the remote one when more than one region is usable
KeptDcs ==
    LET regions == replicas.configuration.regions IN
    {regions[n] : n \in {n \in DOMAIN regions :
                            n = 1 \/ (n = 2 /\ replicas.configuration.usableRegions > 1)}}

\* C34: once the configure step has committed, every key that remains belongs
\* to the primary datacenter, or to the remote one when more than one region
\* is usable, and holds at most storageTeamSize; the keys of the other
\* datacenters are gone; a key that was within the limit is as it was, a key
\* above it holds storageTeamSize; and a second run of the transaction leaves
\* the keys as the first run left them.
C34_ReplicaKeysWithinConfiguration ==
    replicas.commits >= 1 =>
        /\ \A dc \in DcIds :
              /\ replicas.keys[dc] # 0 =>
                    dc \in KeptDcs /\ replicas.keys[dc] <= replicas.configuration.storageTeamSize
              /\ dc \notin KeptDcs => replicas.keys[dc] = 0
              /\ (dc \in KeptDcs /\ replicas.before[dc] <= replicas.configuration.storageTeamSize)
                    => replicas.keys[dc] = replicas.before[dc]
              /\ (dc \in KeptDcs /\ replicas.before[dc] > replicas.configuration.storageTeamSize)
                    => replicas.keys[dc] = replicas.configuration.storageTeamSize
        /\ replicas.keys = replicas.first

\* two regions of which one is usable, storageTeamSize 1: the transaction ran
\* twice; the key of the primary datacenter was lowered, those of the remote
\* and of a third datacenter were removed
C34_Witness ==
    /\ replicas.commits = 2
    /\ replicas.configuration =
          [regions |-> <<"dc1", "dc2">>, usableRegions |-> 1, storageTeamSize |-> 1]
    /\ replicas.before = [dc \in DcIds |-> 2]
    /\ replicas.keys = [dc \in DcIds |-> IF dc = "dc1" THEN 1 ELSE 0]

\* the server ids the priority queue holds, and the ids with a handle
QueuedIds(w) == {e.second : e \in w.wiggle_pq}
HandleIds(w) == w.pq_handles

\* C35: the handle index and the priority queue hold the same server ids, each
\* once in the queue; an id leaves them only as the id getNextServerId
\* returns or as the id removeServer is called with, and is then absent; an
\* id enters them only through addServer, one at a time; updateMetadata of a
\* present server leaves the same ids present, and with the metadata the
\* server already has it leaves the wiggler as it is.
C35_HandlesMatchQueue ==
    /\ [](/\ QueuedIds(wiggler) = HandleIds(wiggler)
          /\ \A e1, e2 \in wiggler.wiggle_pq : e1.second = e2.second => e1 = e2
          /\ \A e \in wiggler.wiggle_pq :
                /\ updateMetadata(wiggler, e.second, e.first) = wiggler
                /\ \A metadata \in StorageMetadata :
                      /\ QueuedIds(updateMetadata(wiggler, e.second, metadata))
                            = QueuedIds(wiggler)
                      /\ HandleIds(updateMetadata(wiggler, e.second, metadata))
                            = HandleIds(wiggler))
    /\ [][\A id \in ServerIds :
             /\ (id \in HandleIds(wiggler) /\ id \notin HandleIds(wiggler'))
                   => (wiggler'.ret = id \/ wiggler'.removed = id)
             /\ (wiggler'.ret = id \/ wiggler'.removed = id) => id \notin HandleIds(wiggler')
             /\ (id \notin HandleIds(wiggler) /\ id \in HandleIds(wiggler'))
                   => /\ wiggler'.ret = -1 /\ wiggler'.removed = 0
                      /\ HandleIds(wiggler') = HandleIds(wiggler) \cup {id}]_vars

\* two servers are queued after a third one was popped
C35_Witness ==
    /\ Cardinality(wiggler.wiggle_pq) = 2
    /\ Cardinality(wiggler.pq_handles) = 2
    /\ wiggler.ret > 0
    /\ wiggler.ret \notin wiggler.pq_handles

\* C36 as stated: the notifier is true exactly when the queue holds a server.
C36_NotifierTracksQueue == wiggler.nonEmpty <=> (wiggler.wiggle_pq # {})

\* C36: the notifier is true whenever the queue holds a server; addServer
\* sets it, removeServer sets it to whether the queue holds a server,
\* getNextServerId and updateMetadata leave it as it is, so that it stays true
\* when getNextServerId takes the last server.
C36_NotifierTrueWhileQueued ==
    /\ [](wiggler.wiggle_pq # {} => wiggler.nonEmpty)
    /\ [][/\ (wiggler'.removed > 0 /\ wiggler'.ret = -1) =>
                (wiggler'.nonEmpty <=> wiggler'.wiggle_pq # {})
          /\ wiggler'.ret >= 0 => wiggler'.nonEmpty = wiggler.nonEmpty
          /\ (wiggler'.removed = 0 /\ wiggler'.ret = -1) =>
                (wiggler'.nonEmpty <=> (wiggler.nonEmpty \/ wiggler'.wiggle_pq # {}))]_vars

\* getNextServerId has returned the last server: the queue is empty and the
\* notifier is true
C36_Witness ==
    /\ wiggler.ret > 0
    /\ wiggler.wiggle_pq = {}
    /\ wiggler.nonEmpty

\* the steps of ddSnapCreateCore from the first disable-pop request to the
\* end of the coordinator snapshot step
MarkedSteps ==
    {"disablePop", "getStorage", "snapStorage", "snapTLog", "enablePop", "getCoord", "snapCoord"}

\* C37 as stated: the marker is set in every step from the disable-pop
\* requests to the coordinator snapshots, it is cleared only by a core whose
\* coordinator snapshot step has succeeded, and it is set whenever
\* ddSnapCreateCore has failed or was cancelled.
C37_MarkerSetOnEveryFailure ==
    /\ [](\A i \in Snaps : core[i].pc \in MarkedSteps => writeRecoveryKey)
    /\ [][(writeRecoveryKey /\ ~writeRecoveryKey') =>
             \E i \in Snaps : snapPc[i] = "running" /\ core[i].pc = "clearFlag"]_vars
    /\ [](\A i \in Snaps : core[i].pc \in {"reEnable", "failed"} => writeRecoveryKey)

\* C37: nothing is sent before the marker is committed, and the marker is set
\* in every step from the disable-pop requests to the coordinator snapshots;
\* a clear of the marker is committed only by the transaction that follows a
\* successful coordinator snapshot step; a core that fails or is cancelled in
\* one of the steps from disable-pop to the coordinator snapshots leaves the
\* marker set, and no failure path writes the marker.  (A core cancelled in
\* its first transaction leaves the marker as it found it, and one that fails
\* in the transaction that clears the marker may have cleared it.)
C37_MarkerSetUntilCleared ==
    /\ [](\A i \in Snaps :
             /\ core[i].pc = "writeFlag" => core[i].log = <<>>
             /\ core[i].pc \in MarkedSteps => writeRecoveryKey
             /\ (core[i].pc \in {"reEnable", "failed"} /\ core[i].failedAt \in MarkedSteps)
                   => writeRecoveryKey)
    /\ [][/\ (writeRecoveryKey /\ ~writeRecoveryKey') =>
                \E i \in Snaps : snapPc[i] = "running" /\ core[i].pc = "clearFlag"
          /\ (~writeRecoveryKey /\ writeRecoveryKey') =>
                \E i \in Snaps : snapPc[i] = "running" /\ core[i].pc = "writeFlag"
          /\ \A i \in Snaps :
                (core'[i].pc = "clearFlag" /\ core[i].pc # "clearFlag") =>
                    /\ core[i].pc = "snapCoord"
                    /\ core'[i].failures <= CoordBudget(core'[i])]_vars

\* the coordinator snapshot step has failed: the marker is set
C37_Witness ==
    \E i \in Snaps :
        /\ core[i].pc = "failed"
        /\ core[i].failedAt = "snapCoord"
        /\ core[i].err = "snap_coord_failed"
        /\ writeRecoveryKey

\* what a snapshot request may be answered with
SnapAnswers ==
    {"Void", "operation_failed", "snap_with_recovery_unsupported", "timed_out",
     "snap_disable_tlog_pop_failed", "snap_storage_failed", "snap_tlog_failed",
     "snap_enable_tlog_pop_failed", "snap_coord_failed"}

\* C38: a snapshot request has no reply while ddSnapCreate runs and exactly
\* one, Void or an error, once ddSnapCreate has ended, also when it ended by
\* refusing the request because another snapshot is in progress; only a
\* ddSnapCreate that was itself cancelled has sent none; no request ever has
\* two replies, and a reply once sent is not followed by another.
C38_ExactlyOneReply ==
    /\ [](\A i \in Snaps :
             /\ Len(snapReply[i]) <= 1
             /\ snapPc[i] \in {"done", "refused"} =>
                   Len(snapReply[i]) = 1 /\ snapReply[i][1] \in SnapAnswers
             /\ snapPc[i] = "refused" => snapReply[i] = <<"operation_failed">>
             /\ snapPc[i] \in {"none", "running", "cancelled"} => snapReply[i] = <<>>
             /\ (snapPc[i] = "done" /\ core[i].pc = "done") <=> (snapReply[i] = <<"Void">>))
    /\ [][\A i \in Snaps :
             (snapPc[i] = "running" /\ snapPc'[i] # "running") =>
                 Len(snapReply'[i]) = (IF snapPc'[i] = "cancelled" THEN 0 ELSE 1)]_vars

\* a request was refused while the other one runs: the refused one has its
\* one reply, the running one has none
C38_Witness ==
    \E i, j \in Snaps :
        /\ snapPc[i] = "refused" /\ snapReply[i] = <<"operation_failed">>
        /\ snapPc[j] = "running" /\ snapReply[j] = <<>>
        /\ core[j].pc = "snapStorage"

\* the scan of the key servers is in progress
Scanning == reader.pc \in Phase2Pcs \cup {"onError2"}

\* the shards appended by a step
AppendedShards ==
    SubSeq(reader'.result.shards, Len(reader.result.shards) + 1, Len(reader'.result.shards))

\* C39: while the key servers are scanned the snapshot holds the shards of
\* the chunks that were completed and nothing of the current one: its keys
\* ascend strictly, none twice, and all lie below the scan position.  An error
\* is caught only at a wait, before anything of the chunk was appended, and
\* neither the catch nor the retry changes the snapshot or the scan position.
\* A chunk appends behind what is there, its first shard begins at the scan
\* position, which is the last key the previous chunk returned, and it moves
\* the scan position to the last key it returned.
C39_RetriedChunkAppendsOnce ==
    /\ [](Scanning =>
             LET shards == reader.result.shards
             IN /\ \A i \in 1..(Len(shards) - 1) : shards[i].key < shards[i + 1].key
                /\ \A i \in 1..Len(shards) : shards[i].key < reader.beginKey
                /\ ShardKeys(shards) = reader.read.keys \ {reader.beginKey}
                /\ (reader.chunks = 0) <=> (reader.beginKey = 0)
                /\ reader.chunks > 0 => reader.beginKey \in reader.read.keys)
    /\ [][(reader'.pc = "onError2" /\ reader.pc # "onError2") =>
             /\ reader.pc \in Phase2Pcs
             /\ reader'.result = reader.result
             /\ reader'.beginKey = reader.beginKey
             /\ reader'.chunks = reader.chunks]_vars
    /\ [][(reader.pc = "onError2" /\ reader'.pc = "checkLock") =>
             /\ reader'.result = reader.result
             /\ reader'.beginKey = reader.beginKey
             /\ reader'.chunks = reader.chunks]_vars
    /\ [][(reader.pc = "keyServers" /\ reader'.chunks = reader.chunks + 1) =>
             /\ SubSeq(reader'.result.shards, 1, Len(reader.result.shards)) = reader.result.shards
             /\ Len(AppendedShards) >= 1
             /\ AppendedShards[1].key = reader.beginKey
             /\ reader'.beginKey > reader.beginKey
             /\ reader'.beginKey \in reader'.read.keys
             /\ \A k \in reader'.read.keys : k <= reader'.beginKey
             /\ \A i \in 1..Len(AppendedShards) :
                   \/ AppendedShards[i].key \in
                          (reader'.read.keys \ reader.read.keys) \cup {reader.beginKey}
                   \/ AppendedShards[i] = SentinelShard /\ i = Len(AppendedShards)]_vars

\* an error was caught after the first chunk was appended and before the
\* second: the snapshot holds the one shard of the first chunk
C39_Witness ==
    /\ reader.pc = "onError2"
    /\ reader.chunks = 1
    /\ reader.beginKey = 1
    /\ Len(reader.result.shards) = 1
    /\ reader.result.shards[1].key = 0

\* the validation of the shards ended getInitialDataDistribution
ValidationAborted == reader.pc = "failed" /\ reader.err = "internal_error"

====
